---- MODULE Spec2Model ----
(***************************************************************************)
(* Model of the Kconfig language server (srv/kconfiglsp.py, srv/lsp.py,    *)
(* srv/rpc.py): the document store, the Kconfig contexts of the builds and *)
(* the request handlers of KconfigServer.                                  *)
(*                                                                         *)
(* Text is a sequence of one-character strings.  A line of a Kconfig file  *)
(* that is the single character "A" or "B" stands for the definition of    *)
(* the symbol of that name, the same line in a conf file for the entry     *)
(* CONFIG_<name>=y; any other non-blank line is a line the parser rejects. *)
(* File paths are sequences of path segments.                              *)
(***************************************************************************)
EXTENDS Integers, Sequences, FiniteSets, Bags, TLC

VARIABLES
    ctx,            \* KconfigServer.ctx: the contexts, in dict insertion order
    main_uri,       \* KconfigServer.main_uri
    access_count,   \* KconfigServer.access_count
    docs,           \* documentStore.docs
    disk,           \* the files on disk (never written by the server)
    sent,           \* notifications sent while handling the last message
    rsp,            \* response sent for the last message (None for none)
    last,           \* the last message handled: method and parameters
    removed,        \* history: the contexts removed and not added again since
    steps,          \* number of messages handled
    cur_req,        \* RPCServer._req: the request being handled (None for none)
    requests,       \* RPCServer.requests: response handlers by outbound request id
    request_id,     \* RPCServer.request_id
    running,        \* RPCServer.running
    ostream,        \* the messages written to the output stream, in order
    istream,        \* history: the frames read from the input stream, in order
    invoked,        \* history: the response handlers invoked, with the response
    loop_state,     \* RPCServer.loop: "running", "returned" or "raised"
    input,          \* the arguments of a function applied on its own (None for none)
    output          \* what the function returned (None before the call)

kvars == <<ctx, main_uri, access_count, docs, disk, sent, rsp, last, removed>>
rpcvars == <<cur_req, requests, request_id, running, ostream, istream, invoked, loop_state>>
fvars == <<input, output>>
vars == <<ctx, main_uri, access_count, docs, disk, sent, rsp, last, removed, steps,
          cur_req, requests, request_id, running, ostream, istream, invoked, loop_state,
          input, output>>

\* Bounds of the model
MaxSteps == 4       \* messages the client sends

\* Python's None, for the optional records of the model
None == [none |-> TRUE]
NL == "\n"

Min(a, b) == IF a < b THEN a ELSE b
Range(s) == {s[i] : i \in DOMAIN s}

-----------------------------------------------------------------------------
(* Paths and URIs *)

KconfigRoot == <<"z", "Kconfig">>
KconfigMissing == <<"z", "Kconfig.missing">>
PrjConf == <<"z", "prj.conf">>
AppConf == <<"z", "app.conf">>
BoardDefconfig == <<"z", "board_defconfig">>
MainC == <<"z", "main.c">>
CommandLine == <<"command-line">>
BuildPaths == {<<"b1">>, <<"b2">>}

EdtSuffix == <<"zephyr", "edt.pickle">>

\* Uri.file(path)
UriFile(path) == [scheme |-> "file", authority |-> "", path |-> path]

\* Uri.__str__: the canonical form scheme://authority/path, used as dict key
Str(uri) == <<uri.scheme, uri.authority, uri.path>>

\* Uri.basename
basename(uri) == IF uri.path = <<>> THEN "" ELSE uri.path[Len(uri.path)]

\* str.startswith('Kconfig') over the basenames of the model
StartsWithKconfig(name) == name \in {"Kconfig", "Kconfig.missing"}

\* str.endswith('.conf') over the basenames of the model
EndsWithConf(name) == name \in {"prj.conf", "app.conf"}

\* uri.path.replace('/zephyr/edt.pickle', ''): every occurrence of the two
\* segments is removed
RECURSIVE RemoveEdtSuffix(_)
RemoveEdtSuffix(p) ==
    IF Len(p) < 2 THEN p
    ELSE IF SubSeq(p, 1, 2) = EdtSuffix THEN RemoveEdtSuffix(SubSeq(p, 3, Len(p)))
    ELSE <<p[1]>> \o RemoveEdtSuffix(Tail(p))

-----------------------------------------------------------------------------
(* TextDocument *)

UNKNOWN_VERSION == -1

RECURSIVE JoinLines(_)
JoinLines(ls) ==
    IF ls = <<>> THEN <<>>
    ELSE IF Len(ls) = 1 THEN ls[1]
    ELSE ls[1] \o <<NL>> \o JoinLines(Tail(ls))

\* TextDocument.text
text(lines) == JoinLines(lines) \o <<NL>>

FirstNL(t) == IF \E i \in 1..Len(t) : t[i] = NL
              THEN CHOOSE i \in 1..Len(t) : t[i] = NL /\ \A j \in 1..(i - 1) : t[j] # NL
              ELSE 0

\* str.splitlines()
RECURSIVE splitlines(_)
splitlines(t) ==
    IF t = <<>> THEN <<>>
    ELSE LET i == FirstNL(t)
         IN  IF i = 0 THEN <<t>>
             ELSE <<SubSeq(t, 1, i - 1)>> \o splitlines(SubSeq(t, i + 1, Len(t)))

RECURSIVE LinesLen(_)
LinesLen(ls) == IF ls = <<>> THEN 0 ELSE Len(ls[1]) + 1 + LinesLen(Tail(ls))

\* TextDocument.offset; pos.line and pos.character count from 0
offset(lines, pos) ==
    IF pos.line >= Len(lines) THEN Len(text(lines))
    ELSE LinesLen(SubSeq(lines, 1, pos.line))
         + Min(Len(lines[pos.line + 1]) + 1, pos.character)

\* Python slices s[:n] and s[n:]
Upto(s, n) == SubSeq(s, 1, Min(n, Len(s)))
From(s, n) == SubSeq(s, Min(n, Len(s)) + 1, Len(s))

\* TextDocument.replace: the lines after the replacement
replace(lines, txt, range) ==
    IF range # None /\ Len(lines) > 0
    THEN splitlines(Upto(text(lines), offset(lines, range.start)) \o txt
                    \o From(text(lines), offset(lines, range.end)))
    ELSE splitlines(txt)

-----------------------------------------------------------------------------
(* DocumentStore.  A server state S is the record of the fields a handler *)
(* reads and writes; handlers are functions from S to S.                  *)

\* TextDocument(uri, text): the document read from disk
DiskDoc(path) == [lines |-> splitlines(disk[path]), version |-> UNKNOWN_VERSION]

\* DocumentStore.get(uri, create): the document, or None
StoreGet(S, uri, create) ==
    IF Str(uri) \in DOMAIN S.docs THEN S.docs[Str(uri)]
    ELSE IF create /\ uri.path \in DOMAIN disk THEN DiskDoc(uri.path)
    ELSE None

\* DocumentStore.get(uri, create): the store afterwards (_from_disk caches)
StoreLoad(S, uri, create) ==
    IF Str(uri) \notin DOMAIN S.docs /\ create /\ uri.path \in DOMAIN disk
    THEN [S EXCEPT !.docs = S.docs @@ (Str(uri) :> DiskDoc(uri.path))]
    ELSE S

\* Kconfig._open(filename, 'r'): the lines the parser reads; found is FALSE
\* when the file is neither in the store nor on disk (the open raises)
OpenLines(S, path) ==
    LET doc == StoreGet(S, UriFile(path), FALSE)
    IN  IF doc # None THEN [found |-> TRUE, lines |-> doc.lines]
        ELSE IF path \in DOMAIN disk THEN [found |-> TRUE, lines |-> splitlines(disk[path])]
        ELSE [found |-> FALSE, lines |-> <<>>]

-----------------------------------------------------------------------------
(* Diagnostics *)

Diag(sev, msg, line) == [sev |-> sev, msg |-> msg, line |-> line]

SymNames == {"A", "B"}

IsEntryLine(l) == Len(l) = 1 /\ l[1] \in SymNames
IsBlank(l) == l = <<>>

-----------------------------------------------------------------------------
(* Kconfig (the kconfiglib wrapper) *)

\* kconfiglib's parse of the root file: the definition nodes in file order
\* and the line (from 1) of the first rejected line, 0 for none
RECURSIVE ScanKconfig(_, _, _)
ScanKconfig(lines, i, nodes) ==
    IF i > Len(lines) THEN [nodes |-> nodes, errline |-> 0]
    ELSE IF IsEntryLine(lines[i]) THEN ScanKconfig(lines, i + 1, Append(nodes, lines[i][1]))
    ELSE IF IsBlank(lines[i]) THEN ScanKconfig(lines, i + 1, nodes)
    ELSE [nodes |-> nodes, errline |-> i]

\* Kconfig.__init__: a parser object that has parsed nothing
NewKconfig == [valid |-> FALSE, nodes |-> <<>>, user |-> {}, diags |-> <<>>,
               outcome |-> "new"]

\* Kconfig.parse: the parser object after _init; outcome records how _init
\* ended: "ok", "empty" (no symbol defined), "kconfig_error" or "exception"
KconfigParse(S, root) ==
    LET Scanned(scan) ==
            IF scan.errline # 0
            THEN [NewKconfig EXCEPT !.nodes = scan.nodes, !.outcome = "kconfig_error"]
            ELSE IF scan.nodes = <<>> THEN [NewKconfig EXCEPT !.outcome = "empty"]
            ELSE [NewKconfig EXCEPT !.valid = TRUE, !.nodes = scan.nodes, !.outcome = "ok"]
        Opened(file) ==
            IF ~file.found THEN [NewKconfig EXCEPT !.outcome = "exception"]
            ELSE Scanned(ScanKconfig(file.lines, 1, <<>>))
    IN  Opened(OpenLines(S, root))

\* Kconfig.loc after a failed parse: the line (from 0) the parser stopped at
KconfigErrLine(S, root) == ScanKconfig(OpenLines(S, root).lines, 1, <<>>).errline - 1

\* kconfig.syms: the names with at least one definition node
Syms(kc) == {kc.nodes[i] : i \in DOMAIN kc.nodes}

-----------------------------------------------------------------------------
(* ConfFile and KconfigContext *)

\* ConfFile(uri)
ConfFile(uri) == [uri |-> uri, diags |-> <<>>]

\* self.modified = {} in parse(): an empty dict
EmptyDict == [type |-> "dict", keys |-> <<>>]

\* KconfigContext.__init__; parses and loads count the parse() and the
\* load_config() calls on the object, and modified is an attribute the object
\* gets in parse()
KconfigContext(uri, root, conf_files) ==
    [uri |-> uri, root |-> root, conf_files |-> conf_files, version |-> 0,
     kc |-> None, cmd_diags |-> <<>>, last_access |-> 0, kconfig_diags |-> <<>>,
     parses |-> 0, loads |-> 0, modified |-> None]

\* Position of a context in the dict, 0 when the key is absent
Idx(S, key) ==
    IF \E i \in 1..Len(S.ctx) : Str(S.ctx[i].uri) = key
    THEN CHOOSE i \in 1..Len(S.ctx) : Str(S.ctx[i].uri) = key
    ELSE 0

CtxOf(S, key) == S.ctx[Idx(S, key)]
SetCtx(S, key, c) == [S EXCEPT !.ctx[Idx(S, key)] = c]

\* KconfigContext.valid
valid(c) == c.kc # None /\ c.kc.valid

\* invalidate leaving the context as it is
invalidate_not(c) == c

\* KconfigContext.invalidate
invalidate(c) ==
    IF c.kc # None THEN [c EXCEPT !.kc.valid = FALSE] ELSE c

\* BoardConf.conf_file: a new ConfFile object on every use
board_conf_file == ConfFile(UriFile(BoardDefconfig))

\* KconfigContext.all_conf_files
all_conf_files(c) == <<board_conf_file>> \o c.conf_files

\* KconfigContext.has_file
has_file(c, uri) == \E i \in 1..Len(all_conf_files(c)) : all_conf_files(c)[i].uri = uri

\* KconfigContext.conf_file: position in all_conf_files of the first file with
\* the URI (1 is the board file), 0 for none
conf_file(c, uri) ==
    LET fs == all_conf_files(c)
    IN  IF \E i \in 1..Len(fs) : fs[i].uri = uri
        THEN CHOOSE i \in 1..Len(fs) : fs[i].uri = uri /\ \A j \in 1..(i - 1) : fs[j].uri # uri
        ELSE 0

\* clear_diags leaving the lists of kconfig_diags as they are
clear_diags_keeping_kconfig(c) ==
    [c EXCEPT !.kc = IF c.kc # None THEN [c.kc EXCEPT !.diags = <<>>] ELSE None,
              !.cmd_diags = <<>>,
              !.conf_files = [i \in DOMAIN c.conf_files |->
                                 [c.conf_files[i] EXCEPT !.diags = <<>>]]]

\* KconfigContext.clear_diags
clear_diags(c) ==
    [c EXCEPT !.kc = IF c.kc # None THEN [c.kc EXCEPT !.diags = <<>>] ELSE None,
              !.kconfig_diags = [k \in DOMAIN c.kconfig_diags |-> <<>>],
              !.cmd_diags = <<>>,
              !.conf_files = [i \in DOMAIN c.conf_files |->
                                 [c.conf_files[i] EXCEPT !.diags = <<>>]]]

\* KconfigContext.kconfig_diag
kconfig_diag(c, uri, diag) ==
    IF Str(uri) \in DOMAIN c.kconfig_diags
    THEN [c EXCEPT !.kconfig_diags[Str(uri)] = Append(@, diag)]
    ELSE [c EXCEPT !.kconfig_diags = @ @@ (Str(uri) :> <<diag>>)]

\* parse with the version incremented only when the parser built a tree
parse_counting_success(S, key) ==
    LET Parsed(c1) ==
            IF c1.kc.outcome \in {"ok", "empty"}
            THEN SetCtx(S, key, [c1 EXCEPT !.version = @ + 1, !.parses = @ + 1])
            ELSE SetCtx(S, key, [c1 EXCEPT !.parses = @ + 1])
        Cleared(c0) == Parsed([c0 EXCEPT !.kc = KconfigParse(S, c0.root)])
    IN  Cleared(clear_diags([CtxOf(S, key) EXCEPT !.modified = EmptyDict]))

\* KconfigContext.parse
parse(S, key) ==
    LET Counted(c2) == SetCtx(S, key, [c2 EXCEPT !.version = @ + 1, !.parses = @ + 1])
        Parsed(c1) ==
            Counted(IF c1.kc.outcome = "kconfig_error"
                    THEN kconfig_diag(c1, UriFile(c1.root),
                                      Diag("Error", "parse", KconfigErrLine(S, c1.root)))
                    ELSE IF c1.kc.outcome = "exception"
                    THEN [c1 EXCEPT !.cmd_diags = Append(@, Diag("Error", "Kconfig failed", 0))]
                    ELSE c1)
        Cleared(c0) == Parsed([c0 EXCEPT !.kc = KconfigParse(S, c0.root)])
    IN  Cleared(clear_diags([CtxOf(S, key) EXCEPT !.modified = EmptyDict]))

\* Kconfig._warn: the warning is kept under the file name it was raised for
KWarn(kc, path, diag) ==
    IF path \in DOMAIN kc.diags
    THEN [kc EXCEPT !.diags[path] = Append(@, diag)]
    ELSE [kc EXCEPT !.diags = @ @@ (path :> <<diag>>)]

\* kconfiglib's load_config over the lines of one file, from line i: an entry
\* of a known symbol sets its user value, an entry of an unknown symbol and a
\* malformed line are warned about
RECURSIVE KLoadLines(_, _, _, _)
KLoadLines(kc, path, lines, i) ==
    IF i > Len(lines) THEN kc
    ELSE LET l == lines[i]
             kc1 == IF IsBlank(l) THEN kc
                    ELSE IF ~IsEntryLine(l)
                         THEN KWarn(kc, path, Diag("Warning", "malformed line", i - 1))
                    ELSE IF l[1] \in Syms(kc) THEN [kc EXCEPT !.user = @ \cup {l[1]}]
                    ELSE KWarn(kc, path, Diag("Warning", "undefined symbol", i - 1))
         IN  KLoadLines(kc1, path, lines, i + 1)

\* Kconfig.load_config(path, replace) for the files paths[i..]; failed is TRUE
\* when a file could not be opened, which ends the loading there
RECURSIVE KLoadFiles(_, _, _, _)
KLoadFiles(S, kc, paths, i) ==
    IF i > Len(paths) THEN [kc |-> kc, failed |-> FALSE]
    ELSE LET file == OpenLines(S, paths[i])
             kc0 == IF i = 1 THEN [kc EXCEPT !.user = {}] ELSE kc
         IN  IF ~file.found THEN [kc |-> kc, failed |-> TRUE]
             ELSE KLoadFiles(S, KLoadLines(kc0, paths[i], file.lines, 1), paths, i + 1)

\* ConfEntry: the name, the assigned text and the location (file and line)
ConfEntry(name, raw, uri, line) == [name |-> name, raw |-> raw, uri |-> uri, line |-> line]

\* ConfFile.entries: one entry per matching line, with the line it is on; the
\* lines of the documents all assign y
RECURSIVE EntriesFrom(_, _, _)
EntriesFrom(uri, lines, i) ==
    IF i > Len(lines) THEN <<>>
    ELSE (IF IsEntryLine(lines[i])
          THEN <<ConfEntry(lines[i][1], "y", uri, i - 1)>>
          ELSE <<>>) \o EntriesFrom(uri, lines, i + 1)

entries(S, uri) == EntriesFrom(uri, StoreGet(S, uri, TRUE).lines, 1)

\* KconfigContext.all_entries
RECURSIVE AllEntriesFrom(_, _, _)
AllEntriesFrom(S, files, i) ==
    IF i > Len(files) THEN <<>>
    ELSE entries(S, files[i].uri) \o AllEntriesFrom(S, files, i + 1)

all_entries(S, c) == AllEntriesFrom(S, all_conf_files(c), 1)

\* The documents ConfFile.doc loads into the store for the given files
RECURSIVE LoadDocs(_, _, _)
LoadDocs(S, files, i) ==
    IF i > Len(files) THEN S
    ELSE LoadDocs(StoreLoad(S, files[i].uri, TRUE), files, i + 1)

\* KconfigContext.check_multiple_assignments: a Warning, or a Hint when the
\* first entry of the name assigns the same value
check_multiple_assignments(entry, all) ==
    LET matching == SelectSeq(all, LAMBDA e : e.name = entry.name)
    IN  IF Len(matching) > 1 /\ matching[1] # entry
        THEN <<Diag(IF matching[1].raw = entry.raw THEN "Hint" ELSE "Warning",
                    "set more than once", entry.line)>>
        ELSE <<>>

\* KconfigContext.lint for one conf file: the diagnostics of its entries.
\* Every symbol of the model is a bool with a prompt and no dependency, and
\* every entry assigns y, so only the last check can apply
RECURSIVE LintEntries(_, _, _, _)
LintEntries(kc, es, all, i) ==
    IF i > Len(es) THEN <<>>
    ELSE (IF es[i].name \in Syms(kc) THEN check_multiple_assignments(es[i], all) ELSE <<>>)
         \o LintEntries(kc, es, all, i + 1)

lint(S, c) ==
    [c EXCEPT !.conf_files =
        [i \in DOMAIN c.conf_files |->
            [c.conf_files[i] EXCEPT !.diags =
                @ \o LintEntries(c.kc, entries(S, c.conf_files[i].uri), all_entries(S, c), 1)]]]

\* The last loop of load_config: the captured warnings of one file go to the
\* conf file of that name (for the board file, an object that is dropped) or
\* to the command-line diagnostics
PartitionFile(c, path) ==
    LET n == conf_file(c, UriFile(path))
    IN  IF n = 0 THEN [c EXCEPT !.cmd_diags = @ \o c.kc.diags[path]]
        ELSE IF n = 1 THEN c
        ELSE [c EXCEPT !.conf_files[n - 1].diags = @ \o c.kc.diags[path]]

RECURSIVE PartitionFiles(_, _, _)
PartitionFiles(c, paths, i) ==
    IF i > Len(paths) THEN c
    ELSE PartitionFiles(IF paths[i] \in DOMAIN c.kc.diags THEN PartitionFile(c, paths[i]) ELSE c,
                        paths, i + 1)

\* The same loop for the warnings raised without a file name (filename '')
PartitionCmd(c) ==
    IF <<>> \in DOMAIN c.kc.diags THEN [c EXCEPT !.cmd_diags = @ \o c.kc.diags[<<>>]] ELSE c

\* The paths load_config loads, in order
ConfPaths(c) == [i \in 1..Len(all_conf_files(c)) |-> all_conf_files(c)[i].uri.path]

\* KconfigContext.load_config
load_config(S, key) ==
    LET Linted(S1, c1) ==
            SetCtx(S1, key, PartitionCmd(PartitionFiles(lint(S1, c1), ConfPaths(c1), 1)))
        Loaded(c0, loaded) ==
            IF loaded.failed
            THEN SetCtx(S, key, [c0 EXCEPT !.kc = loaded.kc,
                                           !.cmd_diags = Append(@, Diag("Error",
                                                                "Kconfig tree parse failed", 0))])
            ELSE Linted(LoadDocs(S, all_conf_files(c0), 1), [c0 EXCEPT !.kc = loaded.kc])
        Load(c0) == Loaded(c0, KLoadFiles(S, c0.kc, ConfPaths(c0), 1))
    IN  Load([CtxOf(S, key) EXCEPT !.loads = @ + 1])

-----------------------------------------------------------------------------
(* Menu nodes and their ids *)

NoKey == <<>>

TopNode == [kind |-> "MAINMENU", parts |-> <<>>]

\* The symbol node that is the n-th definition node of the tree (from 1):
\* its parts are the symbol name and its index among the nodes of that symbol
SymNode(kc, n) ==
    [kind |-> "SYM",
     parts |-> <<kc.nodes[n], Cardinality({j \in 1..(n - 1) : kc.nodes[j] = kc.nodes[n]})>>]

\* The menu nodes of a parsed tree
Nodes(kc) == {TopNode} \cup {SymNode(kc, n) : n \in DOMAIN kc.nodes}

\* KconfigContext._node_id: the version, the node type and the parts
\* (joined by ID_SEP in the code)
node_id(c, node) == [version |-> c.version, kind |-> node.kind, parts |-> node.parts]

\* find_node without the comparison of the id's version
find_node_any_version(c, id) ==
    IF id.kind \in {"MENU", "SYM", "CHOICE", "COMMENT", "MAINMENU"} /\ c.kc = None
    THEN [node |-> None, raised |-> TRUE]
    ELSE IF id.kind = "SYM"
         THEN IF [kind |-> "SYM", parts |-> id.parts] \in Nodes(c.kc)
              THEN [node |-> [kind |-> "SYM", parts |-> id.parts], raised |-> FALSE]
              ELSE [node |-> None, raised |-> TRUE]
    ELSE IF id.kind = "MAINMENU" THEN [node |-> TopNode, raised |-> FALSE]
    ELSE [node |-> None, raised |-> FALSE]

\* KconfigContext.find_node: the node, or None; raised is TRUE when the lookup
\* raises (no parser object, or an index or name the tree does not have)
find_node(c, id) ==
    IF id.version # c.version THEN [node |-> None, raised |-> FALSE]
    ELSE IF id.kind \in {"MENU", "SYM", "CHOICE", "COMMENT", "MAINMENU"} /\ c.kc = None
         THEN [node |-> None, raised |-> TRUE]
    ELSE IF id.kind \in {"MENU", "CHOICE", "COMMENT"} THEN [node |-> None, raised |-> TRUE]
    ELSE IF id.kind = "SYM"
         THEN IF [kind |-> "SYM", parts |-> id.parts] \in Nodes(c.kc)
              THEN [node |-> [kind |-> "SYM", parts |-> id.parts], raised |-> FALSE]
              ELSE [node |-> None, raised |-> TRUE]
    ELSE IF id.kind = "MAINMENU" THEN [node |-> TopNode, raised |-> FALSE]
    ELSE [node |-> None, raised |-> FALSE]

\* _children of a node: the symbol nodes below the top node, in file order
children(kc, node) ==
    IF node.kind = "MAINMENU" THEN [n \in DOMAIN kc.nodes |-> SymNode(kc, n)] ELSE <<>>

\* A handler's outcome: the state afterwards, the value it returns and the
\* error it raises ("" for none)
Ret(S, result) == [S |-> S, result |-> result, error |-> ""]
Raise(S, error) == [S |-> S, result |-> None, error |-> error]

\* KconfigContext.get_menu with KconfigMenu.to_dict: the menu's id and the ids
\* of its items; tree names the tree the answer was computed from
get_menu(c, id, show_all) ==
    LET Menu(found, theid) ==
            IF found.raised THEN [result |-> None, error |-> "Exception"]
            ELSE IF found.node = None THEN [result |-> None, error |-> ""]
            ELSE [result |-> [kind |-> "menu", id |-> theid, node |-> found.node,
                              items |-> [i \in DOMAIN children(c.kc, found.node) |->
                                            node_id(c, children(c.kc, found.node)[i])]],
                  error |-> ""]
    IN  IF ~valid(c) THEN [result |-> None, error |-> ""]
        ELSE IF id # None THEN Menu(find_node(c, id), id)
        ELSE Menu([node |-> TopNode, raised |-> FALSE], node_id(c, TopNode))

-----------------------------------------------------------------------------
(* KconfigServer *)

\* KconfigServer.publish_diags
publish_diags(S, uri, diags) ==
    [S EXCEPT !.sent = Append(@, [method |-> "textDocument/publishDiagnostics",
                                  uri |-> uri, diags |-> diags])]

RECURSIVE PublishConfs(_, _, _)
PublishConfs(S, files, i) ==
    IF i > Len(files) THEN S
    ELSE PublishConfs(publish_diags(S, Str(files[i].uri), files[i].diags), files, i + 1)

\* The keys of kconfig_diags, in some order
RECURSIVE SetToSeq(_)
SetToSeq(T) == IF T = {} THEN <<>>
               ELSE LET x == CHOOSE x \in T : TRUE IN <<x>> \o SetToSeq(T \ {x})

RECURSIVE PublishKconfig(_, _, _, _)
PublishKconfig(S, c, keys, i) ==
    IF i > Len(keys) THEN S
    ELSE PublishKconfig(publish_diags(S, keys[i], c.kconfig_diags[keys[i]]), c, keys, i + 1)

\* The publishing loops run only for a context whose tree is valid
Publish_if_valid(S, key) ==
    LET c == CtxOf(S, key)
        S1 == PublishConfs(S, all_conf_files(c), 1)
        S2 == publish_diags(S1, Str(UriFile(CommandLine)), c.cmd_diags)
    IN  IF valid(c) THEN PublishKconfig(S2, c, SetToSeq(DOMAIN c.kconfig_diags), 1) ELSE S

\* The three publishing loops at the end of refresh_ctx
Publish(S, key) ==
    LET c == CtxOf(S, key)
        S1 == PublishConfs(S, all_conf_files(c), 1)
        S2 == publish_diags(S1, Str(UriFile(CommandLine)), c.cmd_diags)
    IN  PublishKconfig(S2, c, SetToSeq(DOMAIN c.kconfig_diags), 1)

\* refresh_ctx parsing on every call, valid or not
refresh_ctx_always_parse(S, key) ==
    LET Parsed(S1) == Publish(IF valid(CtxOf(S1, key)) THEN load_config(S1, key) ELSE S1, key)
        Cleared(S0) == Parsed(parse(S0, key))
    IN  Cleared(SetCtx(S, key, clear_diags(CtxOf(S, key))))

\* KconfigServer.refresh_ctx
refresh_ctx(S, key) ==
    LET Parsed(S1) == Publish(IF valid(CtxOf(S1, key)) THEN load_config(S1, key) ELSE S1, key)
        Cleared(S0) == Parsed(IF ~valid(CtxOf(S0, key)) THEN parse(S0, key) ELSE S0)
    IN  Cleared(SetCtx(S, key, clear_diags(CtxOf(S, key))))

\* KconfigServer.create_ctx: an existing key keeps its place in the dict
create_ctx(S, uri, root, conf_files) ==
    IF Idx(S, Str(uri)) # 0
    THEN SetCtx(S, Str(uri), KconfigContext(uri, root, conf_files))
    ELSE [S EXCEPT !.ctx = Append(@, KconfigContext(uri, root, conf_files))]

\* sorted(): a stable insertion of c by last_access
RECURSIVE InsertSorted(_, _)
InsertSorted(sorted, c) ==
    IF sorted = <<>> THEN <<c>>
    ELSE IF c.last_access < sorted[Len(sorted)].last_access
         THEN Append(InsertSorted(SubSeq(sorted, 1, Len(sorted) - 1), c), sorted[Len(sorted)])
    ELSE Append(sorted, c)

RECURSIVE SortFrom(_, _, _)
SortFrom(cs, i, acc) ==
    IF i > Len(cs) THEN acc ELSE SortFrom(cs, i + 1, InsertSorted(acc, cs[i]))

\* KconfigServer.sorted_contexts
sorted_contexts(S) == SortFrom(S.ctx, 1, <<>>)

\* [None, *seq].pop(): the key of the last context, NoKey for None
PopKey(cs) == IF cs = <<>> THEN NoKey ELSE Str(cs[Len(cs)].uri)

\* KconfigServer.last_ctx
last_ctx(S) == PopKey(sorted_contexts(S))

\* self.ctx.get(str(self.main_uri))
MainKey(S) ==
    IF S.main_uri # None /\ Idx(S, Str(S.main_uri)) # 0 THEN Str(S.main_uri) ELSE NoKey

\* best_ctx taking the least recently accessed candidate
BestKey_least_recent(S, uri) ==
    LET is_conf_file == EndsWithConf(basename(uri))
        main == MainKey(S)
        has_uri(c) == IF is_conf_file THEN has_file(c, uri) ELSE TRUE
        First(cs) == IF cs = <<>> THEN NoKey ELSE Str(cs[1].uri)
    IN  IF main # NoKey /\ (~is_conf_file \/ has_file(CtxOf(S, main), uri)) THEN main
        ELSE First(SelectSeq(sorted_contexts(S), has_uri))

\* The context best_ctx selects for the URI
BestKey(S, uri) ==
    LET is_conf_file == EndsWithConf(basename(uri))
        main == MainKey(S)
        has_uri(c) == IF is_conf_file THEN has_file(c, uri) ELSE TRUE
    IN  IF main # NoKey /\ (~is_conf_file \/ has_file(CtxOf(S, main), uri)) THEN main
        ELSE PopKey(SelectSeq(sorted_contexts(S), has_uri))

\* The access counting of best_ctx leaving the counter of the server as it is
Touch_keeping_count(S, key) ==
    IF key = NoKey THEN S
    ELSE SetCtx(S, key, [CtxOf(S, key) EXCEPT !.last_access = S.access_count + 1])

\* The access counting of best_ctx
Touch(S, key) ==
    IF key = NoKey THEN S
    ELSE [SetCtx(S, key, [CtxOf(S, key) EXCEPT !.last_access = S.access_count + 1])
            EXCEPT !.access_count = @ + 1]

\* KconfigServer.best_ctx: the state afterwards and the selected context
best_ctx(S, uri) == [S |-> Touch(S, BestKey(S, uri)), key |-> BestKey(S, uri)]

\* KconfigServer.get_ctx
get_ctx(S, id) ==
    IF id # NoKey THEN (IF Idx(S, id) # 0 THEN id ELSE NoKey)
    ELSE IF S.main_uri # None THEN MainKey(S)
    ELSE last_ctx(S)

-----------------------------------------------------------------------------
(* Request handlers.  Each returns the state afterwards, the value returned *)
(* and the error raised.  An answer computed from a parsed tree carries the *)
(* context, the version of the tree and whether the tree was stale, that is *)
(* parsed successfully and invalidated since.                               *)

Stale(c) == c.kc # None /\ c.kc.outcome = "ok" /\ ~c.kc.valid

Answer(kind, c, items) ==
    [kind |-> kind, ctx |-> Str(c.uri), version |-> c.version, stale |-> Stale(c),
     items |-> items]

\* if not ctx.valid: self.refresh_ctx(ctx)
EnsureValid(S, key) == IF ~valid(CtxOf(S, key)) THEN refresh_ctx(S, key) ELSE S

\* KconfigContext.get
get(c, name) == c.kc # None /\ name \in Syms(c.kc)

\* KconfigContext.symbols: the names of the symbols with a definition node,
\* in file order without repetition; the filter of the model matches all
RECURSIVE Distinct(_, _)
Distinct(names, i) ==
    IF i > Len(names) THEN <<>>
    ELSE (IF \E j \in 1..(i - 1) : names[j] = names[i] THEN <<>> ELSE <<names[i]>>)
         \o Distinct(names, i + 1)

symbols(c) == Distinct(c.kc.nodes, 1)

\* addBuild refreshing the new context whatever the main URI is
handle_add_build_refreshing(S, uri, root, conf) ==
    LET Created(S1) == Ret(refresh_ctx(S1, Str(uri)), [kind |-> "id", id |-> Str(uri)])
    IN  Created(create_ctx(S, uri, root, [i \in DOMAIN conf |-> ConfFile(UriFile(conf[i]))]))

\* @handler('kconfig/addBuild')
handle_add_build(S, uri, root, conf) ==
    LET Created(S1) == Ret(IF uri = S.main_uri THEN refresh_ctx(S1, Str(uri)) ELSE S1,
                           [kind |-> "id", id |-> Str(uri)])
    IN  Created(create_ctx(S, uri, root, [i \in DOMAIN conf |-> ConfFile(UriFile(conf[i]))]))

\* removeBuild dropping every context once the named one exists
handle_remove_build_all(S, uri) ==
    Ret(IF Idx(S, Str(uri)) # 0 THEN [S EXCEPT !.ctx = <<>>] ELSE S, None)

\* @handler('kconfig/removeBuild')
handle_remove_build(S, uri) ==
    Ret(IF Idx(S, Str(uri)) # 0
        THEN [S EXCEPT !.ctx = SelectSeq(@, LAMBDA c : Str(c.uri) # Str(uri))]
        ELSE S,
        None)

\* @handler('kconfig/setMainBuild')
handle_set_build(S, uri) ==
    LET Marked(S1) == Ret(IF Idx(S1, Str(uri)) # 0 THEN refresh_ctx(S1, Str(uri)) ELSE S1, None)
    IN  Marked([S EXCEPT !.main_uri = uri])

\* @handler('kconfig/search')
handle_search(S, id) ==
    LET Found(key) ==
            IF key = NoKey THEN Ret(S, None)
            ELSE IF CtxOf(S, key).kc = None THEN Raise(S, "Exception")
            ELSE Ret(S, Answer("search", CtxOf(S, key), symbols(CtxOf(S, key))))
    IN  Found(get_ctx(S, id))

\* @handler('kconfig/getMenu')
handle_get_menu(S, ctxid, id, show_all) ==
    LET Answered(S1, c, menu) ==
            IF menu.error # "" THEN Raise(S1, menu.error)
            ELSE IF menu.result = None THEN Ret(S1, None)
            ELSE Ret(S1, Answer("menu", c, <<menu.result.id>> \o menu.result.items))
        Refreshed(S1, key) == Answered(S1, CtxOf(S1, key), get_menu(CtxOf(S1, key), id, show_all))
        Found(key) == IF key = NoKey THEN Ret(S, None) ELSE Refreshed(EnsureValid(S, key), key)
    IN  Found(get_ctx(S, ctxid))

\* The values Symbol.set_value accepts for the bool symbols of the model
BoolValues == {"y"}

\* KconfigContext.set: an unknown name raises UNKNOWN_NODE; an accepted value
\* is written as the user value and the name is appended to self.modified
\* unless it is in it, which raises when modified is the dict parse() made
\* it (a dict has no append); a rejected value is warned about and ignored
set(S, key, name, val) ==
    LET Written(c1) ==
            IF name \in Range(c1.modified.keys) THEN Ret(SetCtx(S, key, c1), None)
            ELSE IF c1.modified.type = "list"
                 THEN Ret(SetCtx(S, key, [c1 EXCEPT !.modified.keys = Append(@, name)]), None)
            ELSE Raise(SetCtx(S, key, c1), "Exception")
        Known(c) ==
            IF val \in BoolValues THEN Written([c EXCEPT !.kc.user = @ \cup {name}])
            ELSE Ret(SetCtx(S, key, [c EXCEPT !.kc = KWarn(@, <<>>,
                                                        Diag("Warning", "invalid value", 0))]),
                     None)
        Found(c) == IF ~get(c, name) THEN Raise(S, "UnknownNode") ELSE Known(c)
    IN  Found(CtxOf(S, key))

\* KconfigContext.unset: the user value of a known symbol is removed, an
\* unknown name is ignored
unset(S, key, name) ==
    LET Found(c) ==
            IF get(c, name) THEN Ret(SetCtx(S, key, [c EXCEPT !.kc.user = @ \ {name}]), None)
            ELSE Ret(S, None)
    IN  Found(CtxOf(S, key))

\* @handler('kconfig/setVal')
handle_setval(S, ctxid, name, hasval, val) ==
    LET Found(key) ==
            IF key = NoKey THEN Ret(S, None)
            ELSE IF hasval THEN set(S, key, name, val)
            ELSE unset(S, key, name)
    IN  Found(get_ctx(S, ctxid))

\* KconfigContext.symbol_at: the name of the symbol at the line, "" for none
symbol_at(S, c, uri, line) ==
    LET doc == StoreGet(S, uri, TRUE)
    IN  IF doc = None \/ line >= Len(doc.lines) THEN ""
        ELSE IF IsEntryLine(doc.lines[line + 1]) /\ get(c, doc.lines[line + 1][1])
             THEN doc.lines[line + 1][1]
        ELSE ""

\* KconfigServer.get_sym, and the same steps in handle_hover
SymAt(S, uri, line, kind) ==
    LET Looked(S1, key, sym) ==
            IF sym = "" THEN Ret(StoreLoad(S1, uri, TRUE), None)
            ELSE Ret(StoreLoad(S1, uri, TRUE), Answer(kind, CtxOf(S1, key), <<sym>>))
        Refreshed(S1, key) == Looked(S1, key, symbol_at(S1, CtxOf(S1, key), uri, line))
        Selected(best) == IF best.key = NoKey THEN Ret(S, None)
                          ELSE Refreshed(EnsureValid(best.S, best.key), best.key)
    IN  Selected(best_ctx(S, uri))

\* @handler('textDocument/definition')
handle_definition(S, uri, line) == SymAt(S, uri, line, "definition")

\* @handler('textDocument/hover')
handle_hover(S, uri, line) == SymAt(S, uri, line, "hover")

\* @handler('textDocument/completion'); the prefix of the model is CONFIG_
handle_completion(S, uri, line) ==
    LET Refreshed(S1, key) ==
            IF ~valid(CtxOf(S1, key)) THEN Ret(S1, None)
            ELSE IF StoreGet(S1, uri, TRUE) = None THEN Ret(S1, None)
            ELSE Ret(StoreLoad(S1, uri, TRUE),
                     Answer("completion", CtxOf(S1, key), symbols(CtxOf(S1, key))))
        Selected(best) == IF best.key = NoKey THEN Ret(S, None)
                          ELSE Refreshed(EnsureValid(best.S, best.key), best.key)
    IN  Selected(best_ctx(S, uri))

\* @handler('textDocument/documentSymbol')
handle_doc_symbols(S, uri) ==
    LET Listed(S1, c, es) == Ret(S1, Answer("documentSymbol", c, [i \in DOMAIN es |-> es[i].name]))
        Selected(best) ==
            IF best.key = NoKey THEN Ret(S, None)
            ELSE IF conf_file(CtxOf(best.S, best.key), uri) = 0 THEN Ret(best.S, None)
            ELSE IF StoreGet(best.S, uri, TRUE) = None THEN Raise(best.S, "Exception")
            ELSE Listed(StoreLoad(best.S, uri, TRUE), CtxOf(best.S, best.key),
                        entries(best.S, uri))
    IN  Selected(best_ctx(S, uri))

\* @handler('workspace/symbol')
handle_workspace_symbols(S) ==
    LET Found(key) ==
            IF key = NoKey THEN Ret(S, None)
            ELSE IF ~valid(CtxOf(S, key)) THEN Ret(S, None)
            ELSE Ret(S, Answer("workspaceSymbol", CtxOf(S, key), symbols(CtxOf(S, key))))
    IN  Found(last_ctx(S))

\* @handler('textDocument/codeAction') for a range over the whole file: the
\* lines of the diagnostics that carry an action
handle_code_action(S, uri) ==
    LET Listed(S1, c, acts) == Ret(S1, Answer("codeAction", c, [i \in DOMAIN acts |-> acts[i].line]))
        Refreshed(S1, c) ==
            IF conf_file(c, uri) = 0 THEN Ret(S1, None)
            ELSE Listed(S1, c, SelectSeq(all_conf_files(c)[conf_file(c, uri)].diags,
                                         LAMBDA d : d.sev = "Hint"))
        Valid(S1, key) == Refreshed(S1, CtxOf(S1, key))
        Selected(best) == IF best.key = NoKey THEN Ret(S, None)
                          ELSE Valid(EnsureValid(best.S, best.key), best.key)
    IN  Selected(best_ctx(S, uri))

\* on_file_change with a change of edt.pickle invalidating every context
on_file_change_all(S, uri) ==
    IF StartsWithKconfig(basename(uri)) \/ basename(uri) = "edt.pickle"
    THEN [S EXCEPT !.ctx = [i \in DOMAIN S.ctx |-> invalidate(S.ctx[i])]]
    ELSE S

\* KconfigServer.on_file_change
on_file_change(S, uri) ==
    IF StartsWithKconfig(basename(uri))
    THEN [S EXCEPT !.ctx = [i \in DOMAIN S.ctx |-> invalidate(S.ctx[i])]]
    ELSE IF basename(uri) = "edt.pickle"
         THEN LET key == Str(UriFile(RemoveEdtSuffix(uri.path)))
              IN  IF Idx(S, key) # 0 THEN SetCtx(S, key, invalidate(CtxOf(S, key))) ELSE S
    ELSE S

\* LSPServer.handle_changed_watched_files
RECURSIVE FileChanges(_, _, _)
FileChanges(S, uris, i) ==
    IF i > Len(uris) THEN S ELSE FileChanges(on_file_change(S, uris[i]), uris, i + 1)

handle_changed_watched_files(S, uris) == Ret(FileChanges(S, uris, 1), None)

\* The loop of LSPServer.handle_change: the edits in array order
RECURSIVE ApplyChanges(_, _, _)
ApplyChanges(lines, edits, i) ==
    IF i > Len(edits) THEN lines
    ELSE ApplyChanges(replace(lines, edits[i].text, edits[i].range), edits, i + 1)

\* handle_change with the edits applied last to first
lsp_handle_change_reversed(S, uri, edits, version) ==
    LET S1 == StoreLoad(S, uri, TRUE)
        doc == StoreGet(S, uri, TRUE)
    IN  IF doc = None THEN S
        ELSE [S1 EXCEPT !.docs[Str(uri)] =
                 [lines |-> ApplyChanges(doc.lines,
                                         [i \in DOMAIN edits |-> edits[Len(edits) + 1 - i]], 1),
                  version |-> version]]

\* LSPServer.handle_change
lsp_handle_change(S, uri, edits, version) ==
    LET S1 == StoreLoad(S, uri, TRUE)
        doc == StoreGet(S, uri, TRUE)
    IN  IF doc = None THEN S
        ELSE [S1 EXCEPT !.docs[Str(uri)] =
                 [lines |-> ApplyChanges(doc.lines, edits, 1), version |-> version]]

\* KconfigServer.handle_change, @handler('textDocument/didChange')
handle_change(S, uri, edits, version) ==
    LET Edited(S1) == Ret(IF last_ctx(S1) # NoKey THEN refresh_ctx(S1, last_ctx(S1)) ELSE S1,
                          None)
    IN  Edited(lsp_handle_change(S, uri, edits, version))

-----------------------------------------------------------------------------
(* The messages the client sends *)

BuildUris == {UriFile(p) : p \in BuildPaths}
\* The conf files kconfig/addBuild names for each build directory
ConfOf(uri) == IF uri.path = <<"b1">> THEN <<PrjConf>> ELSE <<PrjConf, AppConf>>
\* The root files it names: the second build may name a file that is missing
RootsOf(uri) == IF uri.path = <<"b1">> THEN {KconfigRoot} ELSE {KconfigRoot, KconfigMissing}
DocUris == {UriFile(PrjConf), UriFile(AppConf), UriFile(BoardDefconfig)}
ConfUris == {UriFile(PrjConf), UriFile(AppConf)}
EditUris == {UriFile(PrjConf), UriFile(KconfigRoot)}
WatchedUris == {UriFile(KconfigRoot), UriFile(MainC), UriFile(<<"b1", "edt.pickle">>),
                UriFile(<<"b1">> \o EdtSuffix)}

Pos(line, character) == [line |-> line, character |-> character]

\* Insert a rejected line at the top, delete the first line, replace all
InsertX == [range |-> [start |-> Pos(0, 0), end |-> Pos(0, 0)], text |-> <<"X", NL>>]
DeleteFirst == [range |-> [start |-> Pos(0, 0), end |-> Pos(1, 0)], text |-> <<>>]
ReplaceAll == [range |-> None, text |-> <<"A", NL, "A">>]
\* The contentChanges of textDocument/didChange, per edited document
ChangesOf(uri) == IF uri.path = PrjConf THEN {<<InsertX>>, <<InsertX, DeleteFirst>>}
                  ELSE {<<InsertX>>, <<ReplaceAll>>}

\* The node ids a client may hold: of any version a context can have had
MenuVersions == {1}
MenuKinds == {[kind |-> "MAINMENU", parts |-> <<>>], [kind |-> "SYM", parts |-> <<"A", 0>>]}
MenuIds == {[version |-> v, kind |-> k.kind, parts |-> k.parts] :
                v \in MenuVersions, k \in MenuKinds}

\* The files on disk
FullDisk == (KconfigRoot :> <<"A", NL, "B", NL>>) @@ (PrjConf :> <<"A", NL>>)
            @@ (AppConf :> <<"B", NL>>) @@ (BoardDefconfig :> <<"B", NL>>)

\* The parameters of kconfig/getMenu, kconfig/search and kconfig/setVal
MenuParams == {[ctx |-> NoKey, id |-> id] : id \in {None} \cup MenuIds}
                  \cup {[ctx |-> Str(UriFile(<<"b1">>)), id |-> None]}
SearchCtxIds == {NoKey, Str(UriFile(<<"b2">>))}
SetValParams == {[name |-> "A", hasval |-> TRUE, val |-> "y"],
                 [name |-> "A", hasval |-> TRUE, val |-> "x"],
                 [name |-> "A", hasval |-> FALSE, val |-> ""],
                 [name |-> "Z", hasval |-> TRUE, val |-> "y"],
                 [name |-> "Z", hasval |-> FALSE, val |-> ""]}

-----------------------------------------------------------------------------
(* The specification: RPCServer.handle on one message per step *)

Server == [ctx |-> ctx, docs |-> docs, access_count |-> access_count,
           main_uri |-> main_uri, sent |-> <<>>]

Msg(method, uri, arg) == [method |-> method, uri |-> uri, arg |-> arg]

\* The history of kconfig/removeBuild: the key and the conf file URIs of each
\* context that was removed and has not been added again
Removed(msg) ==
    IF msg.method = "kconfig/removeBuild" /\ Idx(Server, Str(msg.uri)) # 0
    THEN removed \cup {[key |-> Str(msg.uri),
                        files |-> {f.uri : f \in Range(all_conf_files(CtxOf(Server, Str(msg.uri))))}]}
    ELSE IF msg.method = "kconfig/addBuild" THEN {r \in removed : r.key # Str(msg.uri)}
    ELSE removed

\* RPCServer.handle: the handler runs, and a request is answered with its
\* result or its error
Handle(r, isReq, msg) ==
    /\ steps < MaxSteps
    /\ ctx' = r.S.ctx
    /\ docs' = r.S.docs
    /\ access_count' = r.S.access_count
    /\ main_uri' = r.S.main_uri
    /\ sent' = r.S.sent
    /\ rsp' = IF isReq THEN [result |-> r.result, error |-> r.error] ELSE None
    /\ last' = msg
    /\ removed' = Removed(msg)
    /\ steps' = steps + 1
    /\ UNCHANGED disk
    /\ UNCHANGED rpcvars
    /\ UNCHANGED fvars

\* The server after construction, on the given disk
Constructed(files) ==
    /\ ctx = <<>>
    /\ docs = <<>>
    /\ access_count = 0
    /\ main_uri = None
    /\ sent = <<>>
    /\ rsp = None
    /\ last = Msg("none", None, None)
    /\ removed = {}
    /\ steps = 0
    /\ disk \in files
    /\ cur_req = None
    /\ requests = <<>>
    /\ request_id = 0
    /\ running = TRUE
    /\ ostream = <<>>
    /\ istream = <<>>
    /\ invoked = <<>>
    /\ loop_state = "running"

Init ==
    /\ Constructed({FullDisk})
    /\ input = None
    /\ output = None

AddBuild ==
    \E uri \in BuildUris : \E root \in RootsOf(uri) :
        Handle(handle_add_build(Server, uri, root, ConfOf(uri)), TRUE,
               Msg("kconfig/addBuild", uri, root))

RemoveBuild ==
    \E uri \in BuildUris :
        Handle(handle_remove_build(Server, uri), FALSE, Msg("kconfig/removeBuild", uri, None))

SetMainBuild ==
    \E uri \in BuildUris :
        Handle(handle_set_build(Server, uri), TRUE, Msg("kconfig/setMainBuild", uri, None))

Search ==
    \E id \in SearchCtxIds :
        Handle(handle_search(Server, id), TRUE, Msg("kconfig/search", None, id))

GetMenu ==
    \E p \in MenuParams :
        Handle(handle_get_menu(Server, p.ctx, p.id, TRUE), TRUE,
               Msg("kconfig/getMenu", None, p))

SetVal ==
    \E p \in SetValParams :
        Handle(handle_setval(Server, NoKey, p.name, p.hasval, p.val), TRUE,
               Msg("kconfig/setVal", None, p))

Completion ==
    \E uri \in {UriFile(PrjConf)} :
        Handle(handle_completion(Server, uri, 0), TRUE, Msg("textDocument/completion", uri, None))

Hover ==
    \E uri \in DocUris :
        Handle(handle_hover(Server, uri, 0), TRUE, Msg("textDocument/hover", uri, None))

Definition ==
    \E uri \in {UriFile(PrjConf)} :
        Handle(handle_definition(Server, uri, 0), TRUE,
               Msg("textDocument/definition", uri, None))

DocumentSymbol ==
    \E uri \in ConfUris :
        Handle(handle_doc_symbols(Server, uri), TRUE, Msg("textDocument/documentSymbol", uri, None))

CodeAction ==
    \E uri \in {UriFile(PrjConf)} :
        Handle(handle_code_action(Server, uri), TRUE, Msg("textDocument/codeAction", uri, None))

WorkspaceSymbol ==
    Handle(handle_workspace_symbols(Server), TRUE, Msg("workspace/symbol", None, None))

DidChange ==
    \E uri \in EditUris : \E edits \in ChangesOf(uri) :
        Handle(handle_change(Server, uri, edits, steps + 1), FALSE,
               Msg("textDocument/didChange", uri, edits))

DidChangeWatchedFiles ==
    \E uri \in WatchedUris :
        Handle(handle_changed_watched_files(Server, <<uri>>), FALSE,
               Msg("workspace/didChangeWatchedFiles", uri, None))

Next ==
    \/ AddBuild
    \/ RemoveBuild
    \/ SetMainBuild
    \/ Search
    \/ GetMenu
    \/ SetVal
    \/ Completion
    \/ Hover
    \/ Definition
    \/ DocumentSymbol
    \/ CodeAction
    \/ WorkspaceSymbol
    \/ DidChange
    \/ DidChangeWatchedFiles

Spec == Init /\ [][Next]_vars

\* The same server started where one conf file of the builds does not exist:
\* the second user conf file, or the board's defconfig
MissingConfDisks ==
    {[p \in DOMAIN FullDisk \ {gone} |-> FullDisk[p]] : gone \in {AppConf, BoardDefconfig}}

InitMissingConf ==
    /\ Constructed(MissingConfDisks)
    /\ input = None
    /\ output = None

MissingConfSpec == InitMissingConf /\ [][Next]_vars


-----------------------------------------------------------------------------
(* RPCServer (srv/rpc.py): the message loop, the current-request slot and  *)
(* the response handlers of outbound requests.  An RPC server state R is   *)
(* the record of the fields handle() reads and writes.  The handlers are   *)
(* those of the test server of test/test_rpc.py, LSPServer's shutdown,     *)
(* KconfigServer's initialized and a handler that raises an exception      *)
(* other than RPCError.                                                    *)

METHOD_NOT_FOUND == -32601
UNKNOWN_ERROR_CODE == -32001

\* A JSON value other than null
Val(v) == [value |-> v]

RPCError(code, message) == [code |-> code, message |-> message]
RPCRequest(id, method, params) ==
    [type |-> "request", id |-> id, method |-> method, params |-> params]
RPCResponse(id, result, error) ==
    [type |-> "response", id |-> id, result |-> result, error |-> error]
RPCNotification(method, params) ==
    [type |-> "notification", method |-> method, params |-> params]

\* RPCServer._send
rpc_send(R, msg) == [R EXCEPT !.out = Append(@, msg)]

\* rsp leaving the request in the current-request slot
rpc_rsp_keeping_req(R, result, error) ==
    IF R.req = None THEN [R |-> R, raised |-> TRUE]
    ELSE [R |-> rpc_send(R, RPCResponse(R.req.id, result, error)), raised |-> FALSE]

\* RPCServer.rsp; raised is TRUE when it raises Exception('No command')
rpc_rsp(R, result, error) ==
    IF R.req = None THEN [R |-> R, raised |-> TRUE]
    ELSE [R |-> [rpc_send(R, RPCResponse(R.req.id, result, error)) EXCEPT !.req = None],
          raised |-> FALSE]

\* RPCServer.req; handler is "" when none is given.  The entry of the output
\* log also records the handler the request was issued with
rpc_req(R, method, handler) ==
    LET Sent(R1) ==
            [rpc_send(R1, [handler |-> handler] @@ RPCRequest(R.request_id, method, Val("params")))
                EXCEPT !.request_id = @ + 1]
    IN  Sent(IF handler # "" THEN [R EXCEPT !.requests = (R.request_id :> handler) @@ @]
             ELSE R)

\* A handler's outcome: the state afterwards, the value returned and the
\* exception raised (None for none)
Returned(R, result) == [R |-> R, result |-> result, raised |-> None]
Raised(R, exc) == [R |-> R, result |-> None, raised |-> exc]

\* @handler('request') of the test server
handle_request(R) == Returned(R, Val("params"))

\* @handler('errorReq') of the test server
handle_error_request(R) ==
    Raised(R, [exc |-> "RPCError", error |-> RPCError(1234, <<"error">>)])

\* @handler('manualResponse') of the test server
handle_manual_response(R) ==
    LET Responded(r) ==
            IF r.raised THEN Raised(r.R, [exc |-> "Exception", args |-> "No command"])
            ELSE Returned(r.R, Val("invalid"))
    IN  Responded(rpc_rsp(R, Val("params"), None))

\* @handler('shutdown') of LSPServer
handle_shutdown(R) == Returned([R EXCEPT !.running = FALSE], None)

\* @handler('initialized') of KconfigServer: two watch_files calls, each a
\* client/registerCapability request without response handler
handle_initialized(R) ==
    Returned(rpc_req(rpc_req(R, "client/registerCapability", ""),
                     "client/registerCapability", ""), None)

\* A handler that raises an exception that is no RPCError
handle_failing(R) == Raised(R, [exc |-> "Exception", args |-> "failed"])

\* self.handlers
Handlers == {"request", "errorReq", "manualResponse", "shutdown", "initialized", "failing"}

\* self.handlers[msg.method](self, msg.params)
CallHandler(R, method) ==
    CASE method = "request" -> handle_request(R)
      [] method = "errorReq" -> handle_error_request(R)
      [] method = "manualResponse" -> handle_manual_response(R)
      [] method = "shutdown" -> handle_shutdown(R)
      [] method = "initialized" -> handle_initialized(R)
      [] OTHER -> handle_failing(R)

\* The except clauses that turn every exception into the generic error
ErrorOf_generic(raised) ==
    IF raised = None THEN None
    ELSE RPCError(UNKNOWN_ERROR_CODE, <<"Exception: ", "error">>)

\* The except clauses of handle: the error of the response
ErrorOf(raised) ==
    IF raised = None THEN None
    ELSE IF raised.exc = "RPCError" THEN raised.error
    ELSE RPCError(UNKNOWN_ERROR_CODE, <<"Exception: ", raised.args>>)

\* The response branch of handle without the del of the handler
HandleResponse_keeping_handler(R, msg) ==
    IF msg.id \in DOMAIN R.requests
    THEN [R EXCEPT !.invoked = Append(@, [handler |-> R.requests[msg.id], rsp |-> msg])]
    ELSE R

\* RPCServer.handle for an RPCResponse
HandleResponse(R, msg) ==
    IF msg.id \in DOMAIN R.requests
    THEN [R EXCEPT !.invoked = Append(@, [handler |-> R.requests[msg.id], rsp |-> msg]),
                   !.requests = [i \in (DOMAIN @) \ {msg.id} |-> @[i]]]
    ELSE R

\* The current-request slot set for every message that has a method
SetReq_any(R, msg) == [R EXCEPT !.req = RPCRequest(0, msg.method, msg.params)]

\* if isinstance(msg, RPCRequest): self._req = msg
SetReq(R, msg) == IF msg.type = "request" THEN [R EXCEPT !.req = msg] ELSE R

\* RPCServer.handle
rpc_handle(R, msg) ==
    LET Answered(h) ==
            IF h.R.req # None THEN rpc_rsp(h.R, h.result, ErrorOf(h.raised)).R ELSE h.R
        Dispatch(R0) ==
            IF msg.method \in Handlers THEN Answered(CallHandler(R0, msg.method))
            ELSE IF R0.req # None
                 THEN rpc_rsp(R0, None,
                              RPCError(METHOD_NOT_FOUND, <<"Unknown method ", msg.method>>)).R
            ELSE R0
    IN  IF msg.type = "response" THEN HandleResponse(R, msg)
        ELSE Dispatch(SetReq(R, msg))

\* A frame on the input stream: its Content-Length header ("ok", "nan" for
\* a value that is no number, "none" for a missing header, "eof" for the end
\* of the input), whether its body is valid JSON, and the message it encodes
Frame(length, json, msg) == [length |-> length, json |-> json, msg |-> msg]

\* RPCServer._recv: raised is TRUE when int() or json.loads raises, which
\* json.loads does for the empty body read without a length
recv(frame) ==
    IF frame.length = "ok" /\ frame.json THEN [raised |-> FALSE, msg |-> frame.msg]
    ELSE [raised |-> TRUE, msg |-> None]

\* The messages the client sends
RequestMethods == (Handlers \ {"initialized"}) \cup {"unknown"}
NotifyMethods == (Handlers \ {"shutdown"}) \cup {"unknown"}
ResponseIds == {0, 1}
ResponseHandlers == {"", "handle_rsp"}
MalformedFrames == {Frame("ok", FALSE, None), Frame("nan", TRUE, None),
                    Frame("none", TRUE, None)}
EndOfInput == Frame("eof", FALSE, None)

RpcServer == [req |-> cur_req, requests |-> requests, request_id |-> request_id,
              running |-> running, out |-> ostream, invoked |-> invoked]

\* The fields of the server after a step
Commit(R) ==
    /\ cur_req' = R.req
    /\ requests' = R.requests
    /\ request_id' = R.request_id
    /\ running' = R.running
    /\ ostream' = R.out
    /\ invoked' = R.invoked
    /\ loop_state' = IF R.running THEN "running" ELSE "returned"

\* One iteration of RPCServer.loop: self.handle(self._recv()); an exception
\* of _recv is not caught and ends the loop
Loop(frame) ==
    /\ steps < MaxSteps
    /\ loop_state = "running"
    /\ istream' = Append(istream, frame)
    /\ steps' = steps + 1
    /\ IF recv(frame).raised
       THEN /\ loop_state' = "raised"
            /\ UNCHANGED <<cur_req, requests, request_id, running, ostream, invoked>>
       ELSE Commit(rpc_handle(RpcServer, recv(frame).msg))
    /\ UNCHANGED kvars
    /\ UNCHANGED fvars

RecvRequest ==
    \E method \in RequestMethods :
        Loop(Frame("ok", TRUE, RPCRequest(5 + steps, method, Val("params"))))

RecvNotification ==
    \E method \in NotifyMethods : Loop(Frame("ok", TRUE, RPCNotification(method, Val("params"))))

RecvResponse ==
    \E id \in ResponseIds : Loop(Frame("ok", TRUE, RPCResponse(id, Val("result"), None)))

RecvMalformed == \E frame \in MalformedFrames : Loop(frame)

RecvEndOfInput == Loop(EndOfInput)

\* srv.req(method, params, handler) called by the server between two messages
SendRequest ==
    \E handler \in ResponseHandlers :
        /\ steps < MaxSteps
        /\ loop_state = "running"
        /\ steps' = steps + 1
        /\ Commit(rpc_req(RpcServer, "someMethod", handler))
        /\ UNCHANGED istream
        /\ UNCHANGED kvars
        /\ UNCHANGED fvars

RpcNext ==
    \/ RecvRequest
    \/ RecvNotification
    \/ RecvResponse
    \/ RecvMalformed
    \/ RecvEndOfInput
    \/ SendRequest

RpcSpec == Init /\ [][RpcNext]_vars

-----------------------------------------------------------------------------
(* The linter (KconfigContext.lint and its checks) applied on its own, to a *)
(* tree whose symbols have types, prompts, direct dependencies and          *)
(* defaults.  kconfiglib's evaluation of a symbol is modelled for what the  *)
(* checks read of it: user_value, str_value, direct_dep and _str_default.   *)

\* A symbol of kconfig.syms; default is "" for a symbol without default, and
\* a symbol of type "unknown" is referenced by the tree but defined nowhere
Symbol(type, prompt, deps, default) ==
    [type |-> type, prompt |-> prompt, deps |-> deps, default |-> default]

\* The operands of direct_dep: a symbol, or the negation of a symbol
DepSym(name) == [kind |-> "sym", name |-> name]
DepNot(name) == [kind |-> "not", name |-> name]

\* kconfig.syms of the tree the linter is applied to
LintNames == {"D1", "D2", "A", "B", "C", "H", "G", "N", "M", "K", "U"}
LintTree ==
    [n \in LintNames |->
        CASE n = "D1" -> Symbol("bool", TRUE, <<>>, "")
          [] n = "D2" -> Symbol("bool", TRUE, <<>>, "")
          [] n = "A" -> Symbol("bool", TRUE, <<DepSym("D1")>>, "")
          [] n = "B" -> Symbol("bool", TRUE, <<DepSym("D2"), DepSym("D1")>>, "")
          [] n = "C" -> Symbol("bool", TRUE, <<DepNot("D2"), DepSym("D1")>>, "")
          [] n = "H" -> Symbol("bool", FALSE, <<>>, "")
          [] n = "G" -> Symbol("bool", FALSE, <<DepSym("D1")>>, "")
          [] n = "N" -> Symbol("int", TRUE, <<>>, "5")
          [] n = "M" -> Symbol("int", TRUE, <<DepSym("D1")>>, "")
          [] n = "K" -> Symbol("bool", TRUE, <<DepSym("N")>>, "")
          [] n = "U" -> Symbol("unknown", FALSE, <<>>, "")]

\* ConfEntry.type: the type derived from the assigned text
BoolTexts == {"y", "n"}
IntTexts == {"5", "7"}
EntryType(raw) ==
    IF raw \in IntTexts THEN "int" ELSE IF raw \in BoolTexts THEN "bool" ELSE "unknown"

\* kconfiglib's load_config over entries: an assignment to a defined symbol
\* of the type of the text becomes its user value ("" is no user value), any
\* other assignment is warned about and skipped
RECURSIVE LoadEntries(_, _, _, _)
LoadEntries(tree, user, es, i) ==
    IF i > Len(es) THEN user
    ELSE LoadEntries(tree,
                     IF /\ es[i].name \in DOMAIN tree
                        /\ tree[es[i].name].type # "unknown"
                        /\ tree[es[i].name].type = EntryType(es[i].raw)
                     THEN [user EXCEPT ![es[i].name] = es[i].raw]
                     ELSE user,
                     es, i + 1)

\* kconfig.expr_value(dep) # 0, and Symbol.tri_value as "y" or "n": a bool
\* symbol has its user value when it has a prompt and its dependencies hold,
\* its default when only its dependencies hold, and n otherwise; a symbol of
\* another type has the tristate value n
RECURSIVE expr_value(_, _, _)
RECURSIVE tri_value(_, _, _)
expr_value(tree, user, dep) ==
    IF dep.kind = "sym" THEN tri_value(tree, user, dep.name) = "y"
    ELSE tri_value(tree, user, dep.name) = "n"

\* _missing_deps
missing_deps(tree, user, name) ==
    SelectSeq(tree[name].deps, LAMBDA dep : ~expr_value(tree, user, dep))

tri_value(tree, user, name) ==
    LET sym == tree[name]
    IN  IF sym.type # "bool" THEN "n"
        ELSE IF missing_deps(tree, user, name) # <<>> THEN "n"
        ELSE IF sym.prompt /\ user[name] # "" THEN user[name]
        ELSE IF sym.default # "" THEN sym.default
        ELSE "n"

\* Symbol._str_default for a symbol that is no bool
str_default(tree, user, name) ==
    IF missing_deps(tree, user, name) = <<>> THEN tree[name].default ELSE ""

\* Symbol.str_value
str_value(tree, user, name) ==
    LET sym == tree[name]
    IN  IF sym.type = "bool" THEN tri_value(tree, user, name)
        ELSE IF sym.prompt /\ missing_deps(tree, user, name) = <<>> /\ user[name] # ""
             THEN user[name]
        ELSE str_default(tree, user, name)

\* A CodeAction and the TextEdits of its WorkspaceEdit
NewCodeAction(title, edits) == [title |-> title, edits |-> edits]
TextEdit(at, line, newtext) == [at |-> at, line |-> line, text |-> newtext]

\* ConfEntry.remove: the edit that removes the line of the entry
remove(entry, title) == NewCodeAction(title, <<TextEdit("line_range", entry.line, <<>>)>>)

\* A linter diagnostic on an entry
LintDiag(sev, msg, entry, deps, actions) ==
    [sev |-> sev, msg |-> msg, line |-> entry.line, deps |-> deps, actions |-> actions]

\* KconfigContext.check_undefined
check_undefined(entry, sym) ==
    IF sym.type = "unknown"
    THEN <<LintDiag("Error", "Undefined symbol", entry, <<>>, <<>>)>>
    ELSE <<>>

\* KconfigContext.check_type (the symbols of the tree are bool or int and the
\* texts are bool or decimal, so no conversion between hex and int applies)
check_type(entry, sym) ==
    IF sym.type # EntryType(entry.raw)
    THEN <<LintDiag("Error", "Invalid type", entry, <<>>, <<>>)>>
    ELSE <<>>

\* The loop over deps in check_assignment: one edit per dependency that is a
\* bool symbol, on the first entry of its name in the file or, without one,
\* an insertion at the start of the line of the offending entry
RECURSIVE DepEdits(_, _, _, _, _)
DepEdits(tree, es, entry, deps, i) ==
    IF i > Len(deps) THEN <<>>
    ELSE LET dep == deps[i]
             dep_entries == SelectSeq(es, LAMBDA e : e.name = dep.name)
             edit == IF dep_entries # <<>>
                     THEN [dep |-> dep.name,
                           edit |-> TextEdit("value_range", dep_entries[1].line, <<"y">>)]
                     ELSE [dep |-> dep.name,
                           edit |-> TextEdit("line_start", entry.line,
                                             <<"CONFIG_", dep.name, "=y", NL>>)]
         IN  (IF dep.kind = "sym" /\ tree[dep.name].type = "bool" THEN <<edit>> ELSE <<>>)
             \o DepEdits(tree, es, entry, deps, i + 1)

\* list.reverse(), and the list left as it is
Reverse_not(s) == s
Reverse(s) == [i \in DOMAIN s |-> s[Len(s) + 1 - i]]

\* KconfigContext.check_assignment; es are the entries of the file
check_assignment(tree, user, es, entry) ==
    LET sym == tree[entry.name]
        user_value == user[entry.name]
        value == str_value(tree, user, entry.name)
        deps == missing_deps(tree, user, entry.name)
        edits == DepEdits(tree, es, entry, deps, 1)
        Enable ==
            IF Len(edits) = 1
            THEN <<NewCodeAction(<<"Enable", edits[1].dep>>, <<edits[1].edit>>)>>
            ELSE IF Len(edits) > 1
                 THEN <<NewCodeAction(<<"Enable entries", Len(edits)>>,
                                   [i \in DOMAIN edits |-> Reverse(edits)[i].edit])>>
            ELSE <<>>
        Found(sev, msg) ==
            IF deps # <<>>
            THEN <<LintDiag(sev, msg, entry, deps, Enable \o <<remove(entry, "Remove entry")>>)>>
            ELSE <<>>
    IN  IF user_value = value
        THEN (IF user_value = "y" THEN <<>> ELSE Found("Hint", "was already disabled"))
        ELSE IF value # "" THEN Found("Warning", "was assigned, but got")
        ELSE Found("Warning", "couldn't be set")

\* KconfigContext.check_visibility
check_visibility(entry, sym) ==
    IF ~sym.prompt
    THEN <<LintDiag("Warning", "cannot be set (has no prompt)", entry, <<>>,
                    <<remove(entry, "Remove entry")>>)>>
    ELSE <<>>

\* KconfigContext.check_defaults: the user value of a bool is the number 0
\* or 2, which no string compares equal to
check_defaults(tree, user, entry, sym) ==
    IF sym.type # "bool" /\ str_default(tree, user, entry.name) = user[entry.name]
    THEN <<LintDiag("Hint", "by default", entry, <<>>,
                    <<remove(entry, "Remove redundant entry")>>)>>
    ELSE <<>>

\* check_multiple_assignments with the action of its diagnostic
multiple_assignments(entry, all) ==
    LET Found(ds) ==
            IF ds = <<>> THEN <<>>
            ELSE <<LintDiag(ds[1].sev, ds[1].msg, entry, <<>>,
                            IF ds[1].sev = "Hint"
                            THEN <<remove(entry, "Remove redundant entry")>>
                            ELSE <<>>)>>
    IN  Found(check_multiple_assignments(entry, all))

\* The sequence that is the first non-empty one of the given, <<>> for none
RECURSIVE FirstHit(_, _)
FirstHit(checks, i) ==
    IF i > Len(checks) THEN <<>>
    ELSE IF checks[i] # <<>> THEN checks[i]
    ELSE FirstHit(checks, i + 1)

\* lint_entry with the check of the prompt before the check of the assignment
lint_entry_visibility_first(tree, user, es, all, entry) ==
    IF entry.name \notin DOMAIN tree THEN <<>>
    ELSE LET sym == tree[entry.name]
         IN  IF check_undefined(entry, sym) # <<>> THEN check_undefined(entry, sym)
             ELSE IF check_type(entry, sym) # <<>> THEN check_type(entry, sym)
             ELSE FirstHit(<<check_visibility(entry, sym),
                             check_assignment(tree, user, es, entry),
                             check_defaults(tree, user, entry, sym),
                             multiple_assignments(entry, all)>>, 1)

\* The body of the loop of KconfigContext.lint for one entry
lint_entry(tree, user, es, all, entry) ==
    IF entry.name \notin DOMAIN tree THEN <<>>
    ELSE LET sym == tree[entry.name]
         IN  IF check_undefined(entry, sym) # <<>> THEN check_undefined(entry, sym)
             ELSE IF check_type(entry, sym) # <<>> THEN check_type(entry, sym)
             ELSE FirstHit(<<check_assignment(tree, user, es, entry),
                             check_visibility(entry, sym),
                             check_defaults(tree, user, entry, sym),
                             multiple_assignments(entry, all)>>, 1)

RECURSIVE LintFrom(_, _, _, _, _)
LintFrom(tree, user, es, all, i) ==
    IF i > Len(es) THEN <<>>
    ELSE lint_entry(tree, user, es, all, es[i]) \o LintFrom(tree, user, es, all, i + 1)

\* The entries of a conf file whose lines are the given assignments
EntriesOf(uri, assignments) ==
    [i \in DOMAIN assignments |->
        ConfEntry(assignments[i].name, assignments[i].raw, uri, i - 1)]

\* load_config up to the linter, for a board file and one user conf file:
\* the user values after the two loads, and the diagnostics of the user file
lint_conf(tree, board, file) ==
    LET Linted(user, es, all) ==
            [user |-> user, entries |-> es, diags |-> LintFrom(tree, user, es, all, 1)]
        Loaded(bes, es) ==
            Linted(LoadEntries(tree, LoadEntries(tree, [n \in DOMAIN tree |-> ""], bes, 1),
                               es, 1),
                   es, bes \o es)
    IN  Loaded(EntriesOf(UriFile(BoardDefconfig), board), EntriesOf(UriFile(PrjConf), file))

\* The assignments a line of a conf file can hold, and the conf files
MaxEntries == 3
Assign(name, raw) == [name |-> name, raw |-> raw]
Assignments ==
    {Assign("A", "y"), Assign("A", "n"), Assign("B", "y"), Assign("C", "y"), Assign("H", "y"),
     Assign("G", "y"),
     Assign("N", "5"), Assign("N", "7"), Assign("N", "y"), Assign("M", "7"), Assign("K", "y"),
     Assign("U", "y"), Assign("Z", "y"), Assign("D1", "y"), Assign("D1", "n"),
     Assign("D2", "y"), Assign("D2", "n")}
ConfTexts == UNION {[1..n -> Assignments] : n \in 0..MaxEntries}
BoardTexts == {<<>>, <<Assign("A", "y")>>}
LintInputs == {[fn |-> "lint", board |-> b, file |-> f] : b \in BoardTexts, f \in ConfTexts}

LintInit ==
    /\ Constructed({FullDisk})
    /\ input \in LintInputs
    /\ output = None

\* load_config on the input
Lint ==
    /\ input # None
    /\ input.fn = "lint"
    /\ output = None
    /\ output' = lint_conf(LintTree, input.board, input.file)
    /\ UNCHANGED <<kvars, steps, rpcvars, input>>

LintSpec == LintInit /\ [][Lint]_vars

-----------------------------------------------------------------------------
(* textDocument/completion applied on its own, to a line of text, a cursor  *)
(* and a tree with visible and non-visible symbols.  Strings are sequences  *)
(* of characters.                                                           *)

CONFIG_ == <<"C", "O", "N", "F", "I", "G", "_">>

\* str.lstrip(), and the string left as it is
lstrip_not(s) == s
RECURSIVE lstrip(_)
lstrip(s) == IF s # <<>> /\ s[1] = " " THEN lstrip(Tail(s)) ELSE s

\* os.path.commonprefix([a, b])
RECURSIVE commonprefix(_, _)
commonprefix(a, b) ==
    IF a # <<>> /\ b # <<>> /\ a[1] = b[1] THEN <<a[1]>> \o commonprefix(Tail(a), Tail(b))
    ELSE <<>>

\* str.startswith
startswith(s, p) == Len(p) <= Len(s) /\ SubSeq(s, 1, Len(p)) = p

\* s[:n] and s[n:]
Before(s, n) == SubSeq(s, 1, Min(n, Len(s)))
After(s, n) == SubSeq(s, Min(n, Len(s)) + 1, Len(s))

\* _filter_match
filter_match(filter, name) == startswith(name, filter)

\* The symbols of the tree completion is applied to, in the order of
\* kconfig.syms, with Symbol.visibility # 0
CompletionSyms ==
    <<[name |-> <<"A">>, visibility |-> TRUE], [name |-> <<"A", "B">>, visibility |-> FALSE],
      [name |-> <<"B">>, visibility |-> TRUE], [name |-> <<"B", "A">>, visibility |-> FALSE]>>

\* KconfigContext.symbols(filter); a filter that is None or '' matches all
symbols_matching(syms, filter) ==
    LET Stripped(f) == SelectSeq(syms, LAMBDA sym : f = <<>> \/ filter_match(f, sym.name))
    IN  Stripped(IF startswith(filter, CONFIG_) THEN After(filter, Len(CONFIG_)) ELSE filter)

\* handle_completion from doc.line(pos.line) on; lines are the lines of the
\* document.  word is <<>> for None as for ''
completion(syms, lines, pos) ==
    LET Items(word, show_non_visible) ==
            [isIncomplete |-> ~show_non_visible,
             items |-> SelectSeq(symbols_matching(syms, word),
                                 LAMBDA sym : sym.visibility \/ show_non_visible)]
        Word(word) ==
            IF Len(word) > 0
            THEN (IF Len(commonprefix(word, CONFIG_)) < Len(CONFIG_)
                  THEN Items(CONFIG_ \o After(word, Len(commonprefix(word, CONFIG_))), FALSE)
                  ELSE Items(word, TRUE))
            ELSE Items(word, FALSE)
    IN  IF pos.line < Len(lines) /\ lines[pos.line + 1] # <<>>
        THEN Word(lstrip(Before(lines[pos.line + 1], pos.character)))
        ELSE Items(<<>>, FALSE)

\* The lines completion is asked on and the positions of the cursor
MaxColumn == 11
CompletionLines ==
    {<<>>, <<" ", " ">>, <<"C", "O", "N", "F">>, <<"C", "O", "N", "F", "I", "G">>,
     CONFIG_, CONFIG_ \o <<"A">>, <<" ">> \o CONFIG_ \o <<"A", "B">>, CONFIG_ \o <<"B", "=", "y">>,
     <<"A", "B">>, <<"C", "O", "N", "F", "B">>, <<"B">> \o CONFIG_ \o <<"A">>,
     CONFIG_ \o <<"X">>, <<" ", "B">>}
CompletionInputs ==
    {[fn |-> "completion", lines |-> <<l>>, pos |-> Pos(n, c)] :
        l \in CompletionLines, n \in {0, 1}, c \in 0..MaxColumn}

CompletionInit ==
    /\ Constructed({FullDisk})
    /\ input \in CompletionInputs
    /\ output = None

\* handle_completion on the input
Complete ==
    /\ input # None
    /\ input.fn = "completion"
    /\ output = None
    /\ output' = completion(CompletionSyms, input.lines, input.pos)
    /\ UNCHANGED <<kvars, steps, rpcvars, input>>

CompletionSpec == CompletionInit /\ [][Complete]_vars

-----------------------------------------------------------------------------
(* Kconfig._open applied to one file, with the document of the file opened  *)
(* and changed by the client in between.  Here a document carries the       *)
(* loaded flag of TextDocument, which the server model above leaves out     *)
(* because its documents all have text.                                     *)

\* A file that is not on disk, and the files and buffer contents considered
Missing == [missing |-> TRUE]
FileTexts == {<<>>, <<"A", NL>>, <<"B", NL>>}
BufferTexts == {<<>>, <<"A", NL>>, <<"X", NL>>}
DiskFiles == {Missing} \cup {[text |-> t] : t \in FileTexts}

\* TextDocument.__init__: _set_text runs, and sets loaded, only for a text
\* that is not empty
TextDocument(txt, version) ==
    [lines |-> IF txt # <<>> THEN splitlines(txt) ELSE <<>>, loaded |-> txt # <<>>,
     version |-> version]

\* TextDocument._set_text
set_text(doc, txt) == [doc EXCEPT !.lines = splitlines(txt), !.loaded = TRUE]

\* TextDocument.open('r'): a document that is not loaded reads the file;
\* raised is TRUE when the file does not exist
doc_open(doc, file) ==
    IF doc.loaded THEN [doc |-> doc, raised |-> FALSE]
    ELSE IF file = Missing THEN [doc |-> doc, raised |-> TRUE]
    ELSE [doc |-> [set_text(doc, file.text) EXCEPT !.version = UNKNOWN_VERSION],
          raised |-> FALSE]

\* Kconfig._open(filename, 'r') and the reading of what it returns: the
\* document of the store afterwards and the lines the parser reads
kconfig_open(doc, file) ==
    LET Opened(o) ==
            [doc |-> o.doc, read |-> [raised |-> o.raised,
                                      lines |-> IF o.raised THEN <<>> ELSE o.doc.lines]]
    IN  IF doc # None THEN Opened(doc_open(doc, file))
        ELSE IF file = Missing THEN [doc |-> None, read |-> [raised |-> TRUE, lines |-> <<>>]]
        ELSE [doc |-> None, read |-> [raised |-> FALSE, lines |-> splitlines(file.text)]]

\* LSPServer.handle_open: the document replaces the one of the store
handle_open(txt, version) == TextDocument(txt, version)

\* LSPServer.handle_change with one change without range: the document of
\* the store, or the one read from disk, gets the text; None without either
handle_change_all(doc, file, txt, version) ==
    LET Changed(d) == IF d = None THEN None ELSE [set_text(d, txt) EXCEPT !.version = version]
    IN  Changed(IF doc # None THEN doc
                ELSE IF file # Missing THEN TextDocument(file.text, UNKNOWN_VERSION)
                ELSE None)

OpenInputs == {[fn |-> "open", file |-> f] : f \in DiskFiles}

OpenInit ==
    /\ Constructed({FullDisk})
    /\ input \in OpenInputs
    /\ output = [doc |-> None, read |-> None, event |-> "none", latest |-> None]

OpenStep(out) ==
    /\ steps < MaxSteps
    /\ input # None
    /\ input.fn = "open"
    /\ output' = out
    /\ steps' = steps + 1
    /\ UNCHANGED <<kvars, rpcvars, input>>

\* textDocument/didOpen for the file
DidOpenDoc ==
    \E txt \in BufferTexts :
        OpenStep([doc |-> handle_open(txt, steps + 1), read |-> output.read,
                  event |-> "didOpen", latest |-> [text |-> txt]])

\* textDocument/didChange for the file
DidChangeDoc ==
    \E txt \in BufferTexts :
        LET Changed(d) ==
                OpenStep([doc |-> d, read |-> output.read, event |-> "didChange",
                          latest |-> IF d = None THEN output.latest ELSE [text |-> txt]])
        IN  Changed(handle_change_all(output.doc, input.file, txt, steps + 1))

\* The parser opens and reads the file
ParserOpen ==
    LET Opened(o) ==
            OpenStep([doc |-> o.doc, read |-> o.read, event |-> "open",
                      latest |-> output.latest])
    IN  Opened(kconfig_open(output.doc, input.file))

OpenNext ==
    \/ DidOpenDoc
    \/ DidChangeDoc
    \/ ParserOpen

OpenSpec == OpenInit /\ [][OpenNext]_vars

-----------------------------------------------------------------------------
(* KconfigContext.initialize_env over the parses of two contexts: the       *)
(* environment of the process is shared by every context.                   *)

\* Variables every env has and variables an env may have, with their values
EnvValues == [BOARD |-> {"b1", "b2"}, SOC_DIR |-> {"s1", "s2"}, EXTRA |-> {"e1"}]
RequiredKeys == {"BOARD"}
OptionalKeys == {"SOC_DIR", "EXTRA"}
Envs ==
    UNION {{e \in [RequiredKeys \cup opt -> {"b1", "b2", "s1", "s2", "e1"}] :
                \A k \in DOMAIN e : e[k] \in EnvValues[k]} : opt \in SUBSET OptionalKeys}
EnvContexts == {"c1", "c2"}

\* os.environ after initialize_env: every key of env is written, no key is
\* removed
initialize_env(environ, env) ==
    [k \in DOMAIN environ \cup DOMAIN env |-> IF k \in DOMAIN env THEN env[k] ELSE environ[k]]

EnvInputs == {[fn |-> "env", envs |-> e] : e \in [EnvContexts -> Envs]}

EnvInit ==
    /\ Constructed({FullDisk})
    /\ input \in EnvInputs
    /\ output = [environ |-> <<>>, parsed |-> None]

\* KconfigContext.parse of one of the contexts, as far as the environment
\* goes: the parser sees os.environ as initialize_env leaves it
ParseCtx ==
    /\ steps < MaxSteps
    /\ input # None
    /\ input.fn = "env"
    /\ \E c \in EnvContexts :
           LET Seen(environ) == output' = [environ |-> environ, parsed |-> [ctx |-> c]]
           IN  Seen(initialize_env(output.environ, input.envs[c]))
    /\ steps' = steps + 1
    /\ UNCHANGED <<kvars, rpcvars, input>>

EnvSpec == EnvInit /\ [][ParseCtx]_vars

-----------------------------------------------------------------------------
(* KconfigContext._node_id and find_node over trees with menus, symbols,    *)
(* choices and comments.  A tree is the sequence of its menu nodes below    *)
(* the top node in parse order; node 0 is the top node.  An id is the       *)
(* string the code builds, as a sequence of characters in which a type      *)
(* keyword counts as one character.                                         *)

ID_SEP == "@"
MaxNodes == 3
NodeSymNames == {<<"A">>, <<"A", "1">>}
ChoiceItems == {<<"X">>, <<"Y">>}
TreeNodes ==
    {[kind |-> "MENU", name |-> <<>>], [kind |-> "COMMENT", name |-> <<>>]}
    \cup {[kind |-> "SYM", name |-> s] : s \in NodeSymNames}
    \cup {[kind |-> "CHOICE", name |-> x] : x \in ChoiceItems}
Trees == UNION {[1..n -> TreeNodes] : n \in 0..MaxNodes}

\* str() and int() of a number below 100
DigitChars == <<"0", "1", "2", "3", "4", "5", "6", "7", "8", "9">>
str(n) == IF n < 10 THEN <<DigitChars[n + 1]>>
          ELSE <<DigitChars[(n \div 10) + 1], DigitChars[(n % 10) + 1]>>
IsDigit(ch) == \E d \in DOMAIN DigitChars : DigitChars[d] = ch
digit(ch) == (CHOOSE d \in DOMAIN DigitChars : DigitChars[d] = ch) - 1
IsInt(s) == Len(s) > 0 /\ \A i \in DOMAIN s : IsDigit(s[i])
RECURSIVE int(_)
int(s) == IF Len(s) = 0 THEN 0 ELSE 10 * int(SubSeq(s, 1, Len(s) - 1)) + digit(s[Len(s)])

\* ID_SEP.join(parts) and id.split(ID_SEP)
RECURSIVE join(_)
join(parts) ==
    IF Len(parts) = 0 THEN <<>>
    ELSE IF Len(parts) = 1 THEN parts[1]
    ELSE parts[1] \o <<ID_SEP>> \o join(Tail(parts))
RECURSIVE split(_)
split(s) ==
    IF \A i \in DOMAIN s : s[i] # ID_SEP THEN <<s>>
    ELSE LET at == CHOOSE i \in DOMAIN s : s[i] = ID_SEP /\ \A j \in 1..(i - 1) : s[j] # ID_SEP
         IN  <<SubSeq(s, 1, at - 1)>> \o split(SubSeq(s, at + 1, Len(s)))

\* list.index(x), from 0
index(list, x) ==
    (CHOOSE i \in DOMAIN list : list[i] = x /\ \A j \in 1..(i - 1) : list[j] # x) - 1

\* The lists of the parser: the nodes of a kind (and of an item) in parse
\* order, and the choices in parse order, a choice that is defined in several
\* places once for each of its nodes
NodesOf(tree, kind) ==
    SelectSeq([i \in 1..Len(tree) |-> i], LAMBDA i : tree[i].kind = kind)
ItemNodes(tree, kind, name) ==
    SelectSeq([i \in 1..Len(tree) |-> i], LAMBDA i : tree[i].kind = kind /\ tree[i].name = name)
choices(tree) ==
    [k \in DOMAIN NodesOf(tree, "CHOICE") |-> tree[NodesOf(tree, "CHOICE")[k]].name]

\* _node_id leaving out the index of the node among the nodes of its symbol
node_id_of_symbol(tree, version, n) ==
    LET parts == IF n = 0 THEN <<<<"MAINMENU">>>>
                 ELSE IF tree[n].kind = "MENU"
                      THEN <<<<"MENU">>, str(index(NodesOf(tree, "MENU"), n))>>
                 ELSE IF tree[n].kind = "SYM"
                      THEN <<<<"SYM">>, tree[n].name, str(0)>>
                 ELSE IF tree[n].kind = "CHOICE"
                      THEN <<<<"CHOICE">>, str(index(choices(tree), tree[n].name)),
                             str(index(ItemNodes(tree, "CHOICE", tree[n].name), n))>>
                 ELSE <<<<"COMMENT">>, str(index(NodesOf(tree, "COMMENT"), n))>>
    IN  join(<<str(version)>> \o parts)

\* KconfigContext._node_id of node n of a parsed tree
node_id_of(tree, version, n) ==
    LET parts == IF n = 0 THEN <<<<"MAINMENU">>>>
                 ELSE IF tree[n].kind = "MENU"
                      THEN <<<<"MENU">>, str(index(NodesOf(tree, "MENU"), n))>>
                 ELSE IF tree[n].kind = "SYM"
                      THEN <<<<"SYM">>, tree[n].name,
                             str(index(ItemNodes(tree, "SYM", tree[n].name), n))>>
                 ELSE IF tree[n].kind = "CHOICE"
                      THEN <<<<"CHOICE">>, str(index(choices(tree), tree[n].name)),
                             str(index(ItemNodes(tree, "CHOICE", tree[n].name), n))>>
                 ELSE <<<<"COMMENT">>, str(index(NodesOf(tree, "COMMENT"), n))>>
    IN  join(<<str(version)>> \o parts)

\* list[int(s)]: raised is TRUE when s is no number or no index of the list
ListAt(list, s) ==
    IF IsInt(s) /\ int(s) < Len(list)
    THEN [node |-> list[int(s) + 1], raised |-> FALSE]
    ELSE [node |-> None, raised |-> TRUE]

\* KconfigContext.find_node on a parsed tree: the node, None, or raised
find_node_of(tree, version, id) ==
    LET Find(p) ==
            IF Len(p) < 2 \/ ~IsInt(p[1]) THEN [node |-> None, raised |-> TRUE]
            ELSE IF int(p[1]) # version THEN [node |-> None, raised |-> FALSE]
            ELSE IF p[2] = <<"MENU">>
                 THEN IF Len(p) < 3 THEN [node |-> None, raised |-> TRUE]
                      ELSE ListAt(NodesOf(tree, "MENU"), p[3])
            ELSE IF p[2] = <<"SYM">>
                 THEN IF Len(p) < 4 \/ ItemNodes(tree, "SYM", p[3]) = <<>>
                      THEN [node |-> None, raised |-> TRUE]
                      ELSE ListAt(ItemNodes(tree, "SYM", p[3]), p[4])
            ELSE IF p[2] = <<"CHOICE">>
                 THEN IF Len(p) < 4 \/ ListAt(choices(tree), p[3]).raised
                      THEN [node |-> None, raised |-> TRUE]
                      ELSE ListAt(ItemNodes(tree, "CHOICE", ListAt(choices(tree), p[3]).node),
                                  p[4])
            ELSE IF p[2] = <<"COMMENT">>
                 THEN IF Len(p) < 3 THEN [node |-> None, raised |-> TRUE]
                      ELSE ListAt(NodesOf(tree, "COMMENT"), p[3])
            ELSE IF p[2] = <<"MAINMENU">> THEN [node |-> 0, raised |-> FALSE]
            ELSE [node |-> None, raised |-> FALSE]
    IN  Find(split(id))

MaxVersion == 2
NodeInputs ==
    {[fn |-> "node", tree |-> t, version |-> v] : t \in Trees, v \in 1..MaxVersion}

NodeInit ==
    /\ Constructed({FullDisk})
    /\ input \in NodeInputs
    /\ output = None

\* The id of a node of the tree, and the node found for that id
FindNode ==
    /\ input # None
    /\ input.fn = "node"
    /\ output = None
    /\ \E n \in 0..Len(input.tree) :
           LET Found(id) ==
                   output' = [n |-> n, id |-> id,
                              found |-> find_node_of(input.tree, input.version, id)]
           IN  Found(node_id_of(input.tree, input.version, n))
    /\ UNCHANGED <<kvars, rpcvars, steps, input>>

NodeSpec == NodeInit /\ [][FindNode]_vars

-----------------------------------------------------------------------------
(* The way of a parser warning: Kconfig._warn keeps it under its file name, *)
(* the last loop of load_config hands it to a conf file or to the           *)
(* command-line diagnostics, and refresh_ctx publishes.  The context has    *)
(* the board defconfig and the one conf file prj.conf.                      *)

MaxWarnings == 3
IgnoredMsg == "set more than once."
WarnMsgs == {"undefined symbol", IgnoredMsg}
\* '' for a warning without file name, a conf file, the board defconfig and
\* a Kconfig source
WarnFiles == {<<>>, PrjConf, BoardDefconfig, KconfigRoot}
Warnings == {[msg |-> m, filename |-> f] : m \in WarnMsgs, f \in WarnFiles}

\* Kconfig._warn on self.diags, a dict kept as the sequence of its items
\* [key, list] in insertion order; the warning i is raised for line i
warn(diags, msg, filename, linenr) ==
    LET d == Diag("Warning", msg, linenr - 1)
    IN  IF msg = IgnoredMsg THEN diags
        ELSE IF \E k \in DOMAIN diags : diags[k].key = filename
             THEN [k \in DOMAIN diags |->
                      IF diags[k].key = filename
                      THEN [diags[k] EXCEPT !.list = Append(@, d)] ELSE diags[k]]
        ELSE Append(diags, [key |-> filename, list |-> <<d>>])

RECURSIVE WarnFrom(_, _, _)
WarnFrom(diags, ws, i) ==
    IF i > Len(ws) THEN diags
    ELSE WarnFrom(warn(diags, ws[i].msg, ws[i].filename, i), ws, i + 1)

\* The last loop of load_config over the items of self._kconfig.diags from
\* item i: conf.diags.extend for a conf file of the context (the object
\* all_conf_files makes for the board file is dropped), else cmd_diags.extend
RECURSIVE partition_diags(_, _, _)
partition_diags(c, diags, i) ==
    IF i > Len(diags) THEN c
    ELSE LET n == conf_file(c, UriFile(diags[i].key))
             c1 == IF diags[i].key = <<>> THEN [c EXCEPT !.cmd_diags = @ \o diags[i].list]
                   ELSE IF n = 0 THEN [c EXCEPT !.cmd_diags = @ \o diags[i].list]
                   ELSE IF n = 1 THEN c
                   ELSE [c EXCEPT !.conf_files[n - 1].diags = @ \o diags[i].list]
         IN  partition_diags(c1, diags, i + 1)

\* The publications of refresh_ctx for the context
published_of(c) ==
    [i \in 1..Len(all_conf_files(c)) |->
        [uri |-> all_conf_files(c)[i].uri, diags |-> all_conf_files(c)[i].diags]]
    \o <<[uri |-> UriFile(CommandLine), diags |-> c.cmd_diags]>>

WarnContext == KconfigContext(UriFile(<<"b1">>), KconfigRoot, <<ConfFile(UriFile(PrjConf))>>)

WarnInputs ==
    {[fn |-> "warn", warnings |-> ws] : ws \in UNION {[1..n -> Warnings] : n \in 0..MaxWarnings}}

WarnInit ==
    /\ Constructed({FullDisk})
    /\ input \in WarnInputs
    /\ output = None

\* The warnings are captured, partitioned and published
PublishWarnings ==
    /\ input # None
    /\ input.fn = "warn"
    /\ output = None
    /\ LET Published(c) == output' = published_of(c)
       IN  Published(partition_diags(WarnContext, WarnFrom(<<>>, input.warnings, 1), 1))
    /\ UNCHANGED <<kvars, rpcvars, steps, input>>

WarnSpec == WarnInit /\ [][PublishWarnings]_vars

-----------------------------------------------------------------------------
(* Uri: the constructor, __repr__, parse and file over strings kept as      *)
(* sequences of characters.                                                 *)

\* The characters of the components considered: a word character, the
\* separators of a URI, a space, and the backslash of a Windows path
WordChars == {"a", "c"}
Spaces == {" "}
UriChars == {"a", "/", " ", "?", ":"}
MaxPath == 3

\* '%{:02X}'.format(ord(c)) for the characters of the escaped set that occur
EscapeCodes == (":" :> <<"%", "3", "A">>) @@ ("?" :> <<"%", "3", "F">>)
               @@ ("#" :> <<"%", "2", "3">>) @@ ("\\" :> <<"%", "5", "C">>)

\* Uri.escape
RECURSIVE escape(_)
escape(txt) ==
    IF txt = <<>> THEN <<>>
    ELSE (IF Head(txt) \in DOMAIN EscapeCodes THEN EscapeCodes[Head(txt)] ELSE <<Head(txt)>>)
         \o escape(Tail(txt))

\* sanitize() in Uri.parse: every %XX becomes the character of that code
RECURSIVE sanitize(_)
sanitize(raw) ==
    IF raw = <<>> THEN <<>>
    ELSE IF Len(raw) >= 3 /\ \E ch \in DOMAIN EscapeCodes : EscapeCodes[ch] = SubSeq(raw, 1, 3)
         THEN <<CHOOSE ch \in DOMAIN EscapeCodes : EscapeCodes[ch] = SubSeq(raw, 1, 3)>>
              \o sanitize(SubSeq(raw, 4, Len(raw)))
    ELSE <<Head(raw)>> \o sanitize(Tail(raw))

\* Uri.__init__: '/c:/' at the start of the path loses its slash
Uri(scheme, authority, path, query, fragment) ==
    [scheme |-> scheme, authority |-> authority,
     path |-> IF Len(path) >= 4 /\ path[1] = "/" /\ path[2] \in WordChars
                 /\ path[3] = ":" /\ path[4] = "/"
              THEN Tail(path) ELSE path,
     query |-> query, fragment |-> fragment]

\* Uri.__repr__
uri_repr(u) ==
    escape(u.scheme) \o <<":", "/", "/">> \o escape(u.authority)
    \o escape(IF u.path # <<>> /\ u.path[1] = "/" THEN u.path ELSE <<"/">> \o u.path)
    \o (IF u.query # <<>> THEN <<"?">> \o u.query ELSE <<>>)
    \o (IF u.fragment # <<>> THEN <<"#">> \o u.fragment ELSE <<>>)

\* The longest start of s without a character of the set, as a regular
\* expression [^...]* takes it
RECURSIVE Run(_, _)
Run(s, stop) ==
    IF s = <<>> \/ Head(s) \in stop THEN <<>> ELSE <<Head(s)>> \o Run(Tail(s), stop)

StartsWith(s, p) == Len(s) >= Len(p) /\ SubSeq(s, 1, Len(p)) = p
Drop(s, n) == SubSeq(s, n + 1, Len(s))

\* Uri.parse of a string that is no Windows path: the match of
\* (.*?):(?://([^?\s/#]*))?(/[^?\s]*)?(?:\?([^#]+))?(?:#(.+))? on the
\* sanitized string.  found is FALSE without match (parse returns None);
\* raised is TRUE when the path group did not match, for which Uri.__init__
\* raises
uri_parse(raw) ==
    LET s == sanitize(raw)
        WithFragment(scheme, authority, path, query, r) ==
            [found |-> TRUE, raised |-> FALSE,
             uri |-> Uri(scheme, authority, path, query,
                         IF Len(r) >= 2 /\ r[1] = "#" THEN Tail(r) ELSE <<>>)]
        WithQuery(scheme, authority, path, r) ==
            IF Len(r) >= 2 /\ r[1] = "?" /\ r[2] # "#"
            THEN WithFragment(scheme, authority, path, Run(Tail(r), {"#"}),
                              Drop(r, 1 + Len(Run(Tail(r), {"#"}))))
            ELSE WithFragment(scheme, authority, path, <<>>, r)
        WithPath(scheme, authority, r) ==
            IF r # <<>> /\ r[1] = "/"
            THEN WithQuery(scheme, authority, <<"/">> \o Run(Tail(r), {"?"} \cup Spaces),
                           Drop(r, 1 + Len(Run(Tail(r), {"?"} \cup Spaces))))
            ELSE [found |-> TRUE, raised |-> TRUE, uri |-> None]
        WithAuthority(scheme, r) ==
            IF StartsWith(r, <<"/", "/">>)
            THEN WithPath(scheme, Run(Drop(r, 2), {"?", "/", "#"} \cup Spaces),
                          Drop(r, 2 + Len(Run(Drop(r, 2), {"?", "/", "#"} \cup Spaces))))
            ELSE WithPath(scheme, <<>>, r)
    IN  IF \A i \in DOMAIN s : s[i] # ":" THEN [found |-> FALSE, raised |-> FALSE, uri |-> None]
        ELSE WithAuthority(Run(s, {":"}), Drop(s, Len(Run(s, {":"})) + 1))

\* Uri.file
RECURSIVE Slashes(_)
Slashes(p) ==
    IF p = <<>> THEN <<>>
    ELSE <<IF Head(p) = "\\" THEN "/" ELSE Head(p)>> \o Slashes(Tail(p))
uri_file(p) == Uri(<<"f">>, <<>>, Slashes(p), <<>>, <<>>)

\* Uri.__eq__ of two Uri objects
uri_eq(u, o) == uri_repr(u) = uri_repr(o)

\* The URIs: any components, and the files of POSIX and Windows paths
UriPaths == UNION {[1..n -> UriChars] : n \in 0..MaxPath}
FilePaths == {<<"/", "a", "/", "a">>, <<"c", ":", "\\", "a">>, <<"c", ":", "\\", "a", "\\", "a">>}
UriInputs ==
    {[fn |-> "uri", file |-> FALSE, uri |-> Uri(s, a, p, q, f)] :
        s \in {<<"f">>, <<"g">>}, a \in {<<>>, <<"a">>}, p \in UriPaths,
        q \in {<<>>, <<"a">>}, f \in {<<>>, <<"a">>}}
    \cup {[fn |-> "uri", file |-> TRUE, uri |-> uri_file(p)] : p \in FilePaths}

UriInit ==
    /\ Constructed({FullDisk})
    /\ input \in UriInputs
    /\ output = None

\* str(u) and Uri.parse of it
ParseStr ==
    /\ input # None
    /\ input.fn = "uri"
    /\ output = None
    /\ LET Parsed(raw) == output' = [str |-> raw, parsed |-> uri_parse(raw)]
       IN  Parsed(uri_repr(input.uri))
    /\ UNCHANGED <<kvars, rpcvars, steps, input>>

UriSpec == UriInit /\ [][ParseStr]_vars

-----------------------------------------------------------------------------
(* TextDocument.word_at over documents whose lines are sequences of         *)
(* characters.  A result is [none |-> TRUE] for None and carries the word   *)
(* otherwise, the empty string included.                                    *)

MaxLineLen == 3
MaxDocLines == 2
LineChars == {"a", "_", " "}
IsWordChar(ch) == ch \in {"a", "_"}
CharLines == UNION {[1..n -> LineChars] : n \in 0..MaxLineLen}
CharDocs == UNION {[1..n -> CharLines] : n \in 0..MaxDocLines}

\* The longest \w* at the end and at the start of a string
RECURSIVE WordSuffix(_)
WordSuffix(s) ==
    IF s = <<>> \/ ~IsWordChar(s[Len(s)]) THEN <<>>
    ELSE Append(WordSuffix(SubSeq(s, 1, Len(s) - 1)), s[Len(s)])
RECURSIVE WordPrefix(_)
WordPrefix(s) ==
    IF s = <<>> \/ ~IsWordChar(Head(s)) THEN <<>> ELSE <<Head(s)>> \o WordPrefix(Tail(s))

\* line[:n] and line[n:] of Python
SliceTo(s, n) == SubSeq(s, 1, Min(n, Len(s)))
SliceFrom(s, n) == SubSeq(s, Min(n, Len(s)) + 1, Len(s))

\* TextDocument.word_at: None for a line the document does not have and for
\* an empty line
word_at(lines, pos) ==
    IF pos.line >= Len(lines) \/ lines[pos.line + 1] = <<>> THEN [none |-> TRUE, word |-> <<>>]
    ELSE [none |-> FALSE,
          word |-> WordSuffix(SliceTo(lines[pos.line + 1], pos.character))
                   \o WordPrefix(SliceFrom(lines[pos.line + 1], pos.character))]

WordInputs ==
    {[fn |-> "word", lines |-> d, pos |-> [line |-> l, character |-> c]] :
        d \in CharDocs, l \in 0..MaxDocLines, c \in 0..(MaxLineLen + 1)}

WordInit ==
    /\ Constructed({FullDisk})
    /\ input \in WordInputs
    /\ output = None

WordAt ==
    /\ input # None
    /\ input.fn = "word"
    /\ output = None
    /\ output' = word_at(input.lines, input.pos)
    /\ UNCHANGED <<kvars, rpcvars, steps, input>>

WordSpec == WordInit /\ [][WordAt]_vars

-----------------------------------------------------------------------------
(* _children of a choice node.  A choice is the sequence of its menu nodes  *)
(* (the locations where it is opened), a menu node the sequence of its      *)
(* children, and a child a MenuNode with its item, its location and its     *)
(* place there.                                                             *)

MaxLocations == 3
MaxChildren == 2
ChoiceSymbols == {"S1", "S2"}
ChildItems ==
    {[class |-> "Symbol", name |-> s] : s \in ChoiceSymbols}
    \cup {[class |-> "int", name |-> "COMMENT"]}
LocationItems == UNION {[1..n -> ChildItems] : n \in 0..MaxChildren}
ChoiceLocations == UNION {[1..n -> LocationItems] : n \in 1..MaxLocations}

\* isinstance(x, cls)
isinstance(x, cls) == x.class = cls

\* get_children(node) for the node of location loc of the choice
get_children(choice, loc) ==
    [k \in DOMAIN choice[loc] |->
        [class |-> "MenuNode", item |-> choice[loc][k], loc |-> loc, pos |-> k]]

\* The children of all locations in the order of the two loops
RECURSIVE AllChildren(_, _)
AllChildren(choice, loc) ==
    IF loc > Len(choice) THEN <<>>
    ELSE get_children(choice, loc) \o AllChildren(choice, loc + 1)

\* The body of the two loops of _children from child i of all, node being
\* the location queried
RECURSIVE Gather(_, _, _, _, _)
Gather(all, i, node, syms, listed) ==
    IF i > Len(all) THEN listed
    ELSE IF ~isinstance(all[i].item, "Symbol")
         THEN Gather(all, i + 1, node, syms, Append(listed, all[i]))
    ELSE IF all[i].item \notin syms \/ all[i].loc = node
         THEN Gather(all, i + 1, node, syms \cup {all[i].item}, Append(listed, all[i]))
    ELSE Gather(all, i + 1, node, syms, listed)

\* _children(node) for the node of a choice: symbols starts with the items of
\* the listed n of the node with isinstance(n, kconfig.Symbol), and the
\* children are menu nodes
choice_children(choice, node) ==
    LET own == get_children(choice, node)
        syms == {own[k].item : k \in {k \in DOMAIN own : isinstance(own[k], "Symbol")}}
    IN  Gather(AllChildren(choice, 1), 1, node, syms, <<>>)

ChoiceInputs ==
    UNION {{[fn |-> "children", choice |-> c, node |-> n] : n \in DOMAIN c} :
               c \in ChoiceLocations}

ChoiceInit ==
    /\ Constructed({FullDisk})
    /\ input \in ChoiceInputs
    /\ output = None

Children ==
    /\ input # None
    /\ input.fn = "children"
    /\ output = None
    /\ output' = [children |-> choice_children(input.choice, input.node)]
    /\ UNCHANGED <<kvars, rpcvars, steps, input>>

ChoiceSpec == ChoiceInit /\ [][Children]_vars

-----------------------------------------------------------------------------
(* refresh_ctx run several times on one context whose parser warns while    *)
(* it parses and while it loads the conf files.                             *)

MaxCaptured == 1
Captured == UNION {[1..n -> Warnings] : n \in 0..MaxCaptured}

\* clear_diags on the context and the diagnostics of its parser object
clear_all(r) ==
    [r EXCEPT !.diags = <<>>,
              !.c = [@ EXCEPT !.cmd_diags = <<>>,
                             !.conf_files = [i \in DOMAIN @ |-> [@[i] EXCEPT !.diags = <<>>]]]]

\* KconfigContext.parse: a new parser object, which captures the warnings of
\* the parse and ends valid
parse_warning(r, ws) == [r EXCEPT !.valid = TRUE, !.diags = WarnFrom(<<>>, ws, 1)]

\* KconfigContext.load_config: the warnings of the load are captured and the
\* captured warnings are handed out
load_warning(r, ws) ==
    LET Loaded(diags) == [r EXCEPT !.diags = diags, !.c = partition_diags(@, diags, 1)]
    IN  Loaded(WarnFrom(r.diags, ws, 1))

\* KconfigServer.refresh_ctx on the context; the publications are kept
refresh_warning(r, parsing, loading) ==
    LET Published(r2) == [r2 EXCEPT !.published = published_of(r2.c)]
        Parsed(r1) == Published(IF r1.valid THEN load_warning(r1, loading) ELSE r1)
        Cleared(r0) == Parsed(IF ~r0.valid THEN parse_warning(r0, parsing) ELSE r0)
    IN  Cleared(clear_all(r))

RefreshInputs ==
    {[fn |-> "refresh", parsing |-> p, loading |-> l] : p \in Captured, l \in Captured}

RefreshInit ==
    /\ Constructed({FullDisk})
    /\ input \in RefreshInputs
    /\ output = [c |-> WarnContext, valid |-> FALSE, diags |-> <<>>, published |-> <<>>,
                 event |-> "none"]

RefreshStep(out) ==
    /\ steps < MaxSteps
    /\ input # None
    /\ input.fn = "refresh"
    /\ output' = out
    /\ steps' = steps + 1
    /\ UNCHANGED <<kvars, rpcvars, input>>

\* A request that refreshes the context
RefreshCtx ==
    RefreshStep([refresh_warning(output, input.parsing, input.loading)
                    EXCEPT !.event = "refresh"])

\* A watched Kconfig file changes: on_file_change invalidates the context
InvalidateCtx == RefreshStep([output EXCEPT !.valid = FALSE, !.event = "invalidate"])

RefreshNext ==
    \/ RefreshCtx
    \/ InvalidateCtx

RefreshSpec == RefreshInit /\ [][RefreshNext]_vars

-----------------------------------------------------------------------------
(* The user values of the symbols of one valid context under kconfig/setVal *)
(* and the refreshes.  "" stands for no user value; held is the value the   *)
(* last kconfig/setVal gave a symbol and that was not unset or followed by  *)
(* a reparse since.                                                         *)

ValSymbols == {"A", "B"}
UserValues == {"y", "n"}
\* The values the conf files of the context assign
ConfValues == [ValSymbols -> UserValues \cup {""}]
NoValues == [s \in ValSymbols |-> ""]

\* KconfigContext.set for a symbol of the tree: sym.set_value(val)
set_value(user, name, val) == [user EXCEPT ![name] = val]

\* KconfigContext.unset: sym.unset_value()
unset_value(user, name) == [user EXCEPT ![name] = ""]

\* KconfigContext.load_config: the board file is loaded with replace=True,
\* which drops every user value, and the conf files assign theirs
load_values(user, conf) == [s \in ValSymbols |-> conf[s]]

SetValInputs == {[fn |-> "setval", conf |-> c] : c \in ConfValues}

\* The context was added and refreshed: parsed and loaded
SetValInit ==
    /\ Constructed({FullDisk})
    /\ input \in SetValInputs
    /\ output = [user |-> load_values(NoValues, input.conf), held |-> NoValues, event |-> "none"]

SetValStep(out) ==
    /\ steps < MaxSteps
    /\ input # None
    /\ input.fn = "setval"
    /\ output' = out
    /\ steps' = steps + 1
    /\ UNCHANGED <<kvars, rpcvars, input>>

\* kconfig/setVal with a value
SetValue ==
    \E name \in ValSymbols, val \in UserValues :
        SetValStep([user |-> set_value(output.user, name, val),
                    held |-> [output.held EXCEPT ![name] = val], event |-> "set"])

\* kconfig/setVal without a value
UnsetValue ==
    \E name \in ValSymbols :
        SetValStep([user |-> unset_value(output.user, name),
                    held |-> [output.held EXCEPT ![name] = ""], event |-> "unset"])

\* textDocument/didChange: refresh_ctx of the valid context loads and lints
Reload ==
    SetValStep([user |-> load_values(output.user, input.conf), held |-> output.held,
                event |-> "reload"])

\* A watched Kconfig file changed and the context is refreshed: a new parser
\* object without user values, then the load
Reparse ==
    SetValStep([user |-> load_values(NoValues, input.conf), held |-> NoValues,
                event |-> "reparse"])

SetValNext ==
    \/ SetValue
    \/ UnsetValue
    \/ Reload
    \/ Reparse

SetValSpec == SetValInit /\ [][SetValNext]_vars

-----------------------------------------------------------------------------
(* The document store for one file URI: the stored document, the file on    *)
(* disk, which changes behind the server, and the requests and reads that   *)
(* reach the store.  obj numbers the TextDocument objects stored under the  *)
(* URI, 0 for none.                                                         *)

\* DocumentStore.get(uri, create=True): the stored document, or one made by
\* _from_disk and stored; created tells whether a new object was stored
store_get(doc, file) ==
    IF doc # None THEN [doc |-> doc, created |-> FALSE]
    ELSE IF file = Missing THEN [doc |-> None, created |-> FALSE]
    ELSE [doc |-> TextDocument(file.text, UNKNOWN_VERSION), created |-> TRUE]

\* DocumentStore.close, called by LSPServer.handle_close: pass
store_close(doc) == doc

StoreInputs == {[fn |-> "store", file |-> f] : f \in DiskFiles}

StoreInit ==
    /\ Constructed({FullDisk})
    /\ input \in StoreInputs
    /\ output = [doc |-> None, obj |-> 0, file |-> input.file, read |-> None, event |-> "none"]

StoreStep(out) ==
    /\ steps < MaxSteps
    /\ input # None
    /\ input.fn = "store"
    /\ output' = out
    /\ steps' = steps + 1
    /\ UNCHANGED <<kvars, rpcvars, input>>

\* textDocument/didOpen: a new document object replaces the stored one
StoreDidOpen ==
    \E txt \in BufferTexts :
        StoreStep([output EXCEPT !.doc = handle_open(txt, steps + 1), !.obj = steps + 1,
                                 !.event = "didOpen"])

\* textDocument/didChange: documentStore.get(uri), then the change
StoreDidChange ==
    \E txt \in BufferTexts :
        LET Changed(g) ==
                StoreStep([output EXCEPT
                               !.doc = handle_change_all(output.doc, output.file, txt, steps + 1),
                               !.obj = IF g.created THEN steps + 1 ELSE @,
                               !.event = "didChange"])
        IN  Changed(store_get(output.doc, output.file))

\* textDocument/didClose
StoreDidClose ==
    StoreStep([output EXCEPT !.doc = store_close(output.doc), !.event = "didClose"])

\* ConfFile.doc, as the linter reads it: documentStore.get(self.uri)
ConfFileDoc ==
    LET Got(g) ==
            StoreStep([output EXCEPT !.doc = g.doc,
                                     !.obj = IF g.created THEN steps + 1 ELSE @,
                                     !.read = [raised |-> g.doc = None,
                                               lines |-> IF g.doc = None THEN <<>> ELSE g.doc.lines],
                                     !.event = "get"])
    IN  Got(store_get(output.doc, output.file))

\* The file changes on disk
DiskChange ==
    \E f \in DiskFiles \ {output.file} :
        StoreStep([output EXCEPT !.file = f, !.event = "disk"])

\* A parse or a load of the configuration opens the file: Kconfig._open
StoreParserOpen ==
    LET Opened(o) ==
            StoreStep([output EXCEPT !.doc = o.doc, !.read = o.read, !.event = "open"])
    IN  Opened(kconfig_open(output.doc, output.file))

StoreNext ==
    \/ StoreDidOpen
    \/ StoreDidChange
    \/ StoreDidClose
    \/ ConfFileDoc
    \/ DiskChange
    \/ StoreParserOpen

StoreSpec == StoreInit /\ [][StoreNext]_vars

-----------------------------------------------------------------------------
(* The server with two builds of which only the second names app.conf, and  *)
(* textDocument/didChange on either conf file.                              *)

ConfEdits == {<<InsertX>>, <<InsertX, DeleteFirst>>}

DidChangeConf ==
    \E uri \in ConfUris : \E edits \in ConfEdits :
        Handle(handle_change(Server, uri, edits, steps + 1), FALSE,
               Msg("textDocument/didChange", uri, edits))

ChangeNext ==
    \/ AddBuild
    \/ SetMainBuild
    \/ Search
    \/ DidChangeConf

ChangeSpec == Init /\ [][ChangeNext]_vars

-----------------------------------------------------------------------------
(* Properties *)

Keys == {Str(ctx[i].uri) : i \in DOMAIN ctx}

\* The ids a client can hold: every node the trees of the model can have,
\* stamped with any version
HeldIds == {[version |-> v, kind |-> n.kind, parts |-> n.parts] :
                v \in 0..(MaxSteps + 1),
                n \in {TopNode} \cup {[kind |-> "SYM", parts |-> <<s, 0>>] : s \in SymNames}}

\* The context kconfig/getMenu answers from when it was the last message
MenuKey == get_ctx(Server, last.arg.ctx)

\* C1: in every context, find_node returns no node (and raises nothing) for
\* an id whose version is not the context's current version, so the ids of an
\* earlier parse never resolve; and kconfig/getMenu with such an id answers
\* with an empty result and no error.
C1_StaleIdFailsClosed ==
    /\ \A i \in DOMAIN ctx : \A id \in HeldIds :
           id.version # ctx[i].version
               => find_node(ctx[i], id) = [node |-> None, raised |-> FALSE]
    /\ (last.method = "kconfig/getMenu" /\ last.arg.id # None /\ MenuKey # NoKey)
           => (last.arg.id.version # CtxOf(Server, MenuKey).version
                   => rsp = [result |-> None, error |-> ""])

\* C1 witness: getMenu was asked for an id of the first parse after the second
\* parse of a context whose tree is valid, and answered with nothing
C1_Witness ==
    /\ last.method = "kconfig/getMenu"
    /\ last.arg.id # None
    /\ MenuKey # NoKey
    /\ valid(CtxOf(Server, MenuKey))
    /\ CtxOf(Server, MenuKey).version = 2
    /\ last.arg.id.version = 1
    /\ rsp = [result |-> None, error |-> ""]

\* C2: the version of a context is the number of parse() calls made on it,
\* whatever their outcome, and a context has a parser object exactly when it
\* has been parsed.
C2_VersionCountsParses ==
    \A i \in DOMAIN ctx :
        /\ ctx[i].version = ctx[i].parses
        /\ (ctx[i].kc = None) <=> (ctx[i].version = 0)

\* C2 witness: one context whose parse ended in a Kconfig error and one whose
\* parse ended in another exception, both counted
C2_Witness ==
    \E i, j \in DOMAIN ctx :
        /\ ctx[i].kc # None /\ ctx[i].kc.outcome = "kconfig_error" /\ ctx[i].version >= 1
        /\ ctx[j].kc # None /\ ctx[j].kc.outcome = "exception" /\ ctx[j].version >= 1


\* The kinds of the answers the query requests compute from a parsed tree
QueryKinds == {"menu", "search", "completion", "hover", "definition", "documentSymbol",
               "codeAction", "workspaceSymbol"}

\* C3, as claimed: no query request is answered from a tree that was parsed
\* before its context was invalidated: every answer comes from a tree that
\* has not been invalidated since its parse.
C3_NoAnswerFromInvalidatedTree ==
    (rsp # None /\ rsp.result # None /\ rsp.result.kind \in QueryKinds) => ~rsp.result.stale

\* Two contexts that differ in nothing but the validity of their tree
SameButValidity(c, d) ==
    IF c.kc = None THEN d = c
    ELSE d.kc # None /\ d = [c EXCEPT !.kc.valid = d.kc.valid]

\* The build directory an edt.pickle URI belongs to, <<>> for none
EdtBuild(uri) ==
    IF \E b \in BuildPaths : uri.path = b \o EdtSuffix
    THEN CHOOSE b \in BuildPaths : uri.path = b \o EdtSuffix
    ELSE <<>>

\* C4: a workspace/didChangeWatchedFiles notification for a file whose
\* basename starts with Kconfig leaves every context invalid, one for
\* <build>/zephyr/edt.pickle leaves the context of <build> invalid and the
\* validity of the others as it was, one for any other file changes no
\* context; in every case nothing but validity changes, no parse runs and
\* nothing is sent.  A parse only ever runs in a step that publishes
\* diagnostics, which is a later request.
C4_WatchedFileInvalidates ==
    [][/\ last'.method = "workspace/didChangeWatchedFiles" =>
            /\ sent' = <<>> /\ rsp' = None /\ docs' = docs
            /\ DOMAIN ctx' = DOMAIN ctx
            /\ \A i \in DOMAIN ctx :
                   /\ SameButValidity(ctx[i], ctx'[i])
                   /\ ctx'[i].version = ctx[i].version
                   /\ IF StartsWithKconfig(basename(last'.uri)) THEN ~valid(ctx'[i])
                      ELSE IF ctx[i].uri.path = EdtBuild(last'.uri) THEN ~valid(ctx'[i])
                      ELSE ctx'[i] = ctx[i]
       /\ \A i \in DOMAIN ctx' : \A j \in DOMAIN ctx :
              (ctx'[i].uri = ctx[j].uri /\ ctx'[i].version > ctx[j].version)
                  => (sent' # <<>> /\ last'.method # "workspace/didChangeWatchedFiles")
      ]_vars

\* C4 witness: the edt.pickle of one build changed: its context, which was
\* parsed, is invalid, and the context of the other build is still valid
C4_Witness ==
    /\ last.method = "workspace/didChangeWatchedFiles"
    /\ EdtBuild(last.uri) # <<>>
    /\ \E i, j \in DOMAIN ctx :
           /\ ctx[i].uri.path = EdtBuild(last.uri) /\ Stale(ctx[i])
           /\ ctx[j].uri.path # EdtBuild(last.uri) /\ ctx[j].kc = None


\* The edits applied one after the other, first to last
RECURSIVE EditedLines(_, _)
EditedLines(lines, edits) ==
    IF edits = <<>> THEN lines
    ELSE EditedLines(replace(lines, Head(edits).text, Head(edits).range), Tail(edits))

\* The state before the step with the document of the URI fully edited
AfterEdit(uri, edits, version) ==
    [Server EXCEPT !.docs =
        (Str(uri) :> [lines |-> EditedLines(StoreGet(Server, uri, TRUE).lines, edits),
                      version |-> version]) @@ @]

\* Position in ctx of the context didChange refreshes
LastIdx == Idx(Server, last_ctx(Server))

\* C5: after textDocument/didChange the document holds the edits applied in
\* array order and the version of the notification; the context refreshed is
\* one of greatest last_access, and the contexts, the store and the published
\* diagnostics are those of a refresh run on the fully edited document.
\* Without a context nothing is refreshed or sent.
C5_EditsThenRefresh ==
    [][last'.method = "textDocument/didChange" =>
          LET Same(R) == ctx' = R.ctx /\ docs' = R.docs /\ sent' = R.sent
          IN  /\ docs'[Str(last'.uri)].lines
                     = EditedLines(StoreGet(Server, last'.uri, TRUE).lines, last'.arg)
              /\ docs'[Str(last'.uri)].version = steps'
              /\ IF ctx = <<>> THEN Same(AfterEdit(last'.uri, last'.arg, steps'))
                 ELSE /\ \A i \in DOMAIN ctx : ctx[i].last_access <= ctx[LastIdx].last_access
                      /\ Same(refresh_ctx(AfterEdit(last'.uri, last'.arg, steps'),
                                          last_ctx(Server)))
                      /\ sent' # <<>>
      ]_vars

\* C5 witness: two edits whose order matters were applied to prj.conf, its
\* version was set, and a valid context was refreshed and published
C5_Witness ==
    /\ last.method = "textDocument/didChange"
    /\ last.uri = UriFile(PrjConf)
    /\ last.arg = <<InsertX, DeleteFirst>>
    /\ docs[Str(last.uri)] = [lines |-> <<<<"A">>>>, version |-> steps]
    /\ ctx # <<>>
    /\ valid(ctx[LastIdx])
    /\ sent # <<>>

Owed(c, u) ==
    (IF u = Str(UriFile(BoardDefconfig)) THEN 1 ELSE 0)
    + Cardinality({j \in DOMAIN c.conf_files : Str(c.conf_files[j].uri) = u})
    + (IF u = Str(UriFile(CommandLine)) THEN 1 ELSE 0)
    + (IF u \in DOMAIN c.kconfig_diags THEN 1 ELSE 0)

\* The notifications sent in the last step are those of one refresh of c
PublishedFor(c) ==
    /\ \A n \in DOMAIN sent : sent[n].method = "textDocument/publishDiagnostics"
    /\ \A u \in {sent[n].uri : n \in DOMAIN sent}
                \cup {Str(UriFile(BoardDefconfig)), Str(UriFile(CommandLine))}
                \cup {Str(c.conf_files[j].uri) : j \in DOMAIN c.conf_files}
                \cup DOMAIN c.kconfig_diags :
           Cardinality({n \in DOMAIN sent : sent[n].uri = u}) = Owed(c, u)

\* C7: the notifications of a step are either none or those of one refresh
\* of one context: exactly one publishDiagnostics for the board defconfig,
\* one for each user conf file, one for the command-line URI and one for each
\* Kconfig file the context has an entry of recorded diagnostics for; and
\* the refreshes of setMainBuild and didChange send them whether the parse
\* succeeded or failed.
C7_RefreshPublishesOncePerFile ==
    /\ sent # <<>> => \E i \in DOMAIN ctx : PublishedFor(ctx[i])
    /\ (last.method = "kconfig/setMainBuild" /\ Str(last.uri) \in Keys)
           => PublishedFor(CtxOf(Server, Str(last.uri)))
    /\ (last.method = "textDocument/didChange" /\ ctx # <<>>) => PublishedFor(ctx[LastIdx])

\* C7 witness: setMainBuild refreshed a context whose parse failed with a
\* Kconfig error, and the diagnostics of its conf files, of the command line
\* and of the Kconfig file were published
C7_Witness ==
    /\ last.method = "kconfig/setMainBuild"
    /\ Str(last.uri) \in Keys
    /\ LET c == CtxOf(Server, Str(last.uri))
       IN  /\ c.kc # None /\ c.kc.outcome = "kconfig_error"
           /\ DOMAIN c.kconfig_diags # {}
           /\ Len(sent) = Len(c.conf_files) + 3
           /\ \E n \in DOMAIN sent : sent[n].diags # <<>>

\* C8: kconfig/addBuild creates the context and answers with its id, and
\* refreshes it (parser object, version 1, diagnostics published) exactly
\* when its URI is the main URI; otherwise the context is left unparsed at
\* version 0 and nothing is sent.  kconfig/setMainBuild sets the main URI,
\* and refreshes the context of that URI exactly when there is one.
C8_RefreshedWhenExistingAndMain ==
    /\ last.method = "kconfig/addBuild" =>
           /\ Str(last.uri) \in Keys
           /\ rsp = [result |-> [kind |-> "id", id |-> Str(last.uri)], error |-> ""]
           /\ LET c == CtxOf(Server, Str(last.uri))
              IN  IF main_uri = last.uri
                  THEN c.kc # None /\ c.version = 1 /\ sent # <<>> /\ PublishedFor(c)
                  ELSE c.kc = None /\ c.version = 0 /\ sent = <<>>
    /\ last.method = "kconfig/setMainBuild" =>
           /\ main_uri = last.uri
           /\ IF Str(last.uri) \in Keys
              THEN LET c == CtxOf(Server, Str(last.uri))
                   IN  c.kc # None /\ c.version >= 1 /\ sent # <<>> /\ PublishedFor(c)
              ELSE sent = <<>>

\* C8 witness: a build added as the main build was refreshed in the addBuild
\* request, while a build added before it is still at version 0
C8_Witness ==
    /\ last.method = "kconfig/addBuild"
    /\ main_uri = last.uri
    /\ valid(CtxOf(Server, Str(last.uri)))
    /\ CtxOf(Server, Str(last.uri)).version = 1
    /\ \E i \in DOMAIN ctx : ctx[i].uri # main_uri /\ ctx[i].version = 0


\* The requests about a position or a range of a document
DocMethods == {"textDocument/completion", "textDocument/hover", "textDocument/definition",
               "textDocument/documentSymbol", "textDocument/codeAction"}

Empty == [result |-> None, error |-> ""]

\* The keys get_ctx can be asked for
CtxIds == {NoKey} \cup {Str(u) : u \in BuildUris}

\* No selection of a context returns a context that was removed
NeverSelected(key) ==
    /\ key \notin Keys
    /\ last_ctx(Server) # key
    /\ \A id \in CtxIds : get_ctx(Server, id) # key
    /\ \A u \in DocUris : BestKey(Server, u) # key

\* An answer computed from a tree names a context the server has
AnswerFromLiveContext ==
    (rsp # None /\ rsp.result # None /\ rsp.result.kind \in QueryKinds)
        => rsp.result.ctx \in Keys

Candidates(uri) ==
    {i \in DOMAIN ctx : EndsWithConf(basename(uri)) => has_file(ctx[i], uri)}

MainExists == main_uri # None /\ Str(main_uri) \in Keys

\* the policy of best_ctx for one URI and the key it returned
BestAsSpecified(uri, k) ==
    IF MainExists /\ (~EndsWithConf(basename(uri))
                         \/ has_file(CtxOf(Server, Str(main_uri)), uri))
    THEN k = Str(main_uri)
    ELSE IF Candidates(uri) = {} THEN k = NoKey
    ELSE /\ k \in Keys
         /\ Idx(Server, k) \in Candidates(uri)
         /\ \A j \in Candidates(uri) : ctx[j].last_access <= CtxOf(Server, k).last_access

\* C10: for every URI, best_ctx selects the main context when it exists and
\* the URI is not a .conf file or the main context references it; otherwise
\* a candidate of greatest last_access, the candidates being the contexts
\* that reference a .conf URI and all contexts for another URI; and none only
\* when there is no candidate.  The document requests answer from the
\* context so selected.
C10_BestCtxPolicy ==
    /\ \A uri \in DocUris : BestAsSpecified(uri, BestKey(Server, uri))
    /\ (last.method \in DocMethods /\ rsp.result # None)
           => rsp.result.ctx = BestKey(Server, last.uri)

\* C10 witness: without a main context, a hover on a conf file both contexts
\* reference was answered from the more recently accessed one, which is the
\* first of the two in the dict
C10_Witness ==
    /\ last.method = "textDocument/hover"
    /\ ~MainExists
    /\ Len(ctx) = 2
    /\ Candidates(last.uri) = {1, 2}
    /\ ctx[1].last_access > ctx[2].last_access
    /\ rsp.result # None
    /\ rsp.result.ctx = Str(ctx[1].uri)

\* C11, as claimed: get_ctx returns the context of the id when one is given;
\* without an id it returns the main context when the main URI names an
\* existing context and otherwise a most recently accessed context, so it
\* returns a context whenever there is one.
C11_GetCtxFallsBack ==
    /\ \A id \in CtxIds \ {NoKey} : get_ctx(Server, id) = (IF id \in Keys THEN id ELSE NoKey)
    /\ get_ctx(Server, NoKey) = (IF MainExists THEN Str(main_uri) ELSE last_ctx(Server))
    /\ ctx # <<>> => get_ctx(Server, NoKey) # NoKey

\* The context kconfig/setVal works on: its parameters name no context
SetKey == get_ctx(Server, NoKey)

\* C17, as claimed: kconfig/setVal for a name that is no symbol of the
\* context is answered with the error UnknownNode and a null result and
\* changes no state, with a value (set) and without one (unset).
C17_UnknownSymbolFails ==
    [][(/\ last'.method = "kconfig/setVal"
        /\ SetKey # NoKey
        /\ ~get(CtxOf(Server, SetKey), last'.arg.name))
           => /\ rsp' = [result |-> None, error |-> "UnknownNode"]
              /\ ctx' = ctx /\ docs' = docs /\ main_uri' = main_uri
              /\ access_count' = access_count /\ sent' = <<>>
      ]_vars

\* The user values parse followed by load_config alone gives the context.
\* Every symbol of the model is a bool without dependencies, so its current
\* value is y exactly when its user value is
ParseLoadUser(key) == CtxOf(load_config(parse(Server, key), key), key).kc.user

\* C18, as claimed: when a symbol of a valid (parsed and loaded) context is
\* set and then unset, the user values of the context are those parse and
\* load alone produce, whether or not a conf file assigns the symbol.
C18_SetUnsetRestores ==
    [][(/\ last.method = "kconfig/setVal" /\ last.arg.hasval
        /\ last'.method = "kconfig/setVal" /\ ~last'.arg.hasval
        /\ last'.arg.name = last.arg.name
        /\ SetKey # NoKey
        /\ valid(CtxOf(Server, SetKey))
        /\ get(CtxOf(Server, SetKey), last.arg.name))
           => ctx'[Idx(Server, SetKey)].kc.user = ParseLoadUser(SetKey)
      ]_vars

\* How often the name is recorded in a modified list
Recorded(c, name) == Cardinality({i \in DOMAIN c.modified.keys : c.modified.keys[i] = name})

\* C19, as claimed: kconfig/setVal with a value for a symbol of the context
\* is answered without error; an accepted value is written as the user value
\* and leaves the name in the modified list exactly once, a rejected value
\* leaves the modified list and the user values as they were.
C19_SetRecordsOnce ==
    [][(/\ last'.method = "kconfig/setVal" /\ last'.arg.hasval
        /\ SetKey # NoKey
        /\ get(CtxOf(Server, SetKey), last'.arg.name))
           => LET Post(c, d) ==
                      /\ rsp'.error = ""
                      /\ IF last'.arg.val \in BoolValues
                         THEN last'.arg.name \in d.kc.user /\ Recorded(d, last'.arg.name) = 1
                         ELSE d.modified = c.modified /\ d.kc.user = c.kc.user
              IN  Post(CtxOf(Server, SetKey), ctx'[Idx(Server, SetKey)])
      ]_vars

\* The outcomes of Kconfig.parse that are a failure of the parse
FailedOutcomes == {"kconfig_error", "exception"}

ErrorsIn(ds) == {i \in DOMAIN ds : ds[i].sev = "Error"}

\* The number of Error diagnostics a context holds, in kconfig_diags, in
\* cmd_diags and in the diags of its conf files
ErrorCount(c) ==
    Cardinality(UNION {{<<k, i>> : i \in ErrorsIn(c.kconfig_diags[k])} :
                          k \in DOMAIN c.kconfig_diags})
    + Cardinality(ErrorsIn(c.cmd_diags))
    + Cardinality(UNION {{<<j, i>> : i \in ErrorsIn(c.conf_files[j].diags)} :
                            j \in DOMAIN c.conf_files})

\* The Error diagnostics published in the last step, as notification and index
SentErrors == UNION {{<<n, i>> : i \in ErrorsIn(sent[n].diags)} : n \in DOMAIN sent}

\* C20: a context whose last parse failed is not valid and holds exactly one
\* Error diagnostic, however many parses failed before: under the root file
\* the parser stopped in when the parse ended with a Kconfig error, and in
\* the command-line diagnostics when it ended with another exception.  The
\* refresh of setMainBuild that ends so publishes exactly that one Error, for
\* that URI.
C20_OneErrorPerFailedParse ==
    /\ \A i \in DOMAIN ctx :
           (ctx[i].kc # None /\ ctx[i].kc.outcome \in FailedOutcomes) =>
               /\ ~valid(ctx[i])
               /\ ErrorCount(ctx[i]) = 1
               /\ IF ctx[i].kc.outcome = "kconfig_error"
                  THEN /\ Str(UriFile(ctx[i].root)) \in DOMAIN ctx[i].kconfig_diags
                       /\ Cardinality(ErrorsIn(ctx[i].kconfig_diags[Str(UriFile(ctx[i].root))])) = 1
                  ELSE Cardinality(ErrorsIn(ctx[i].cmd_diags)) = 1
    /\ (/\ last.method = "kconfig/setMainBuild"
        /\ Str(last.uri) \in Keys
        /\ CtxOf(Server, Str(last.uri)).kc.outcome \in FailedOutcomes)
           => /\ Cardinality(SentErrors) = 1
              /\ \A e \in SentErrors :
                     sent[e[1]].uri = (IF CtxOf(Server, Str(last.uri)).kc.outcome = "kconfig_error"
                                       THEN Str(UriFile(CtxOf(Server, Str(last.uri)).root))
                                       ELSE Str(UriFile(CommandLine)))

\* C20 witness: setMainBuild refreshed a context whose parse failed with a
\* Kconfig error for at least the second time, and published the one Error
C20_Witness ==
    /\ last.method = "kconfig/setMainBuild"
    /\ Str(last.uri) \in Keys
    /\ CtxOf(Server, Str(last.uri)).kc.outcome = "kconfig_error"
    /\ CtxOf(Server, Str(last.uri)).parses >= 2
    /\ Cardinality(SentErrors) = 1

\* The frames read that are well-formed, and those that carry a request or a
\* response
WellFormed(f) == ~recv(f).raised
InRequests == SelectSeq(istream, LAMBDA f : WellFormed(f) /\ f.msg.type = "request")
InResponses == SelectSeq(istream, LAMBDA f : WellFormed(f) /\ f.msg.type = "response")

\* The responses and the requests among the messages of an output log
Responses(out) == SelectSeq(out, LAMBDA m : m.type = "response")
Requests(out) == SelectSeq(out, LAMBDA m : m.type = "request")

\* The frame read in the step from the unprimed to the primed state
JustRead(kind) ==
    /\ Len(istream') = Len(istream) + 1
    /\ WellFormed(istream'[Len(istream')])
    /\ istream'[Len(istream')].msg.type = kind

\* C12: the responses written are, in order, one for each request read, each
\* with the id of its request, and every request is answered in the step
\* that reads it; a request whose handler responds through rsp() and then
\* returns a value is answered with what it passed to rsp() alone.
C12_OneResponsePerRequest ==
    /\ Len(Responses(ostream)) = Len(InRequests)
    /\ \A k \in DOMAIN InRequests :
           LET Pair(q, r) ==
                   /\ r.id = q.id
                   /\ q.method \in {"manualResponse", "request"}
                          => r = RPCResponse(q.id, Val("params"), None)
           IN  Pair(InRequests[k].msg, Responses(ostream)[k])

\* C12 witness: a request whose handler responds through rsp() and a request
\* whose handler raises were read, and the two responses left in that order
C12_Witness ==
    /\ Len(InRequests) = 2
    /\ InRequests[1].msg.method = "manualResponse"
    /\ InRequests[2].msg.method = "errorReq"
    /\ Len(Responses(ostream)) = 2
    /\ Responses(ostream)[1].id = InRequests[1].msg.id
    /\ Responses(ostream)[2].id = InRequests[2].msg.id
    /\ Responses(ostream)[1].id # Responses(ostream)[2].id

\* C13: the current-request slot is empty after every step, and a step that
\* reads a notification writes no response, whatever its handler does and
\* whether or not its method is known.
C13_NotificationsNeverAnswered ==
    [][/\ cur_req' = None
       /\ JustRead("notification") => Responses(ostream') = Responses(ostream)
      ]_vars

\* C13 witness: after a request was answered, a notification whose handler
\* calls rsp() was read, and the one response is still the only one
C13_Witness ==
    /\ Len(istream) >= 2
    /\ WellFormed(istream[Len(istream)])
    /\ istream[Len(istream)].msg.type = "notification"
    /\ istream[Len(istream)].msg.method = "manualResponse"
    /\ Len(InRequests) = 1
    /\ Len(Responses(ostream)) = 1
    /\ cur_req = None

\* The error a request of the method is to be answered with
ExpectedError(method, e) ==
    CASE method = "unknown" -> e.code = METHOD_NOT_FOUND
      [] method = "errorReq" -> e = RPCError(1234, <<"error">>)
      [] method = "failing" ->
            /\ e.code = UNKNOWN_ERROR_CODE
            /\ \E i \in DOMAIN e.message : e.message[i] = "failed"
      [] OTHER -> TRUE

\* C14: a request for a method without handler, for a handler that raises an
\* RPCError and for a handler that raises another exception is answered with
\* a null result and an error: MethodNotFound, the RPCError's code and
\* message, and the generic error with the exception text in its message;
\* the loop goes on.
C14_ErrorResponses ==
    \A k \in DOMAIN InRequests :
        InRequests[k].msg.method \in {"unknown", "errorReq", "failing"} =>
            LET Pair(q, r) ==
                    /\ r.id = q.id
                    /\ r.result = None
                    /\ r.error # None
                    /\ ExpectedError(q.method, r.error)
            IN  /\ k \in DOMAIN Responses(ostream)
                /\ Pair(InRequests[k].msg, Responses(ostream)[k])
                /\ (k = Len(InRequests) /\ istream[Len(istream)] = InRequests[k])
                       => running /\ loop_state = "running"

\* C14 witness: the three kinds of failing request were read one after the
\* other and the server is still running
C14_Witness ==
    /\ Len(InRequests) = 3
    /\ {InRequests[k].msg.method : k \in 1..3} = {"unknown", "errorReq", "failing"}
    /\ Len(Responses(ostream)) = 3
    /\ \A k \in 1..3 : Responses(ostream)[k].error # None
    /\ loop_state = "running"

\* C15, as claimed: the loop ends only after a shutdown message or at the end
\* of the input; a malformed frame or a body that is no JSON leaves it
\* running.
C15_MalformedFramesSkipped ==
    loop_state # "running" =>
        /\ istream # <<>>
        /\ \/ istream[Len(istream)] = EndOfInput
           \/ /\ WellFormed(istream[Len(istream)])
              /\ istream[Len(istream)].msg.type \in {"request", "notification"}
              /\ istream[Len(istream)].msg.method = "shutdown"

\* The outbound request of the id in an output log was issued with a handler
IssuedWithHandler(out, id) ==
    \E k \in DOMAIN Requests(out) : Requests(out)[k].id = id /\ Requests(out)[k].handler # ""

\* C16: the outbound requests carry the ids 0, 1, 2, ... in the order they
\* are written; a response read invokes a handler exactly when a request of
\* its id was issued with a handler and no response with that id was
\* delivered before, and then that handler, with that response; a step that
\* reads a response writes nothing, and no other step invokes a handler.
C16_ResponseHandlersOnce ==
    [][/\ \A k \in DOMAIN Requests(ostream') : Requests(ostream')[k].id = k - 1
       /\ request_id' = Len(Requests(ostream'))
       /\ IF JustRead("response")
          THEN LET Delivered(m) ==
                       IF /\ IssuedWithHandler(ostream, m.id)
                          /\ \A j \in DOMAIN invoked : invoked[j].rsp.id # m.id
                       THEN /\ Len(invoked') = Len(invoked) + 1
                            /\ SubSeq(invoked', 1, Len(invoked)) = invoked
                            /\ invoked'[Len(invoked')].rsp = m
                            /\ invoked'[Len(invoked')].handler = "handle_rsp"
                       ELSE invoked' = invoked
               IN  ostream' = ostream /\ Delivered(istream'[Len(istream')].msg)
          ELSE invoked' = invoked
      ]_vars

\* C16 witness: a request was issued with a handler, its response was read
\* twice and a response with an id never issued was read; the handler was
\* invoked once
C16_Witness ==
    /\ Len(InResponses) = 3
    /\ Len(invoked) = 1
    /\ invoked[1].rsp.id = 0
    /\ Cardinality({k \in 1..3 : InResponses[k].msg.id = 0}) = 2
    /\ \E k \in 1..3 : ~IssuedWithHandler(ostream, InResponses[k].msg.id)

\* The query requests C21 names
QueryMethods == {"textDocument/completion", "textDocument/codeAction", "textDocument/hover",
                 "textDocument/documentSymbol", "workspace/symbol", "kconfig/getMenu",
                 "kconfig/search"}

\* The context the handler of a query request selects, NoKey for none
SelectedKey(S, msg) ==
    IF msg.method = "kconfig/search" THEN get_ctx(S, msg.arg)
    ELSE IF msg.method = "kconfig/getMenu" THEN get_ctx(S, msg.arg.ctx)
    ELSE IF msg.method = "workspace/symbol" THEN last_ctx(S)
    ELSE BestKey(S, msg.uri)

\* No context matches the request, its document is unknown, or the context
\* selected is not valid
NothingToAnswerFrom(S, msg) ==
    \/ SelectedKey(S, msg) = NoKey
    \/ ~valid(CtxOf(S, SelectedKey(S, msg)))
    \/ msg.uri # None /\ StoreGet(S, msg.uri, TRUE) = None

\* C21, as claimed: a query request received when no context matches, the
\* document is unknown or the selected context is not valid is never
\* answered with an error.
C21_QueriesNeverFail ==
    [][(last'.method \in QueryMethods /\ NothingToAnswerFrom(Server, last'))
           => rsp'.error = ""]_vars

\* The diagnostics of the given severity among those published in the step
PublishedOf(sev) ==
    UNION {{<<sent[i].uri, sent[i].diags[j]>> :
                j \in {j \in DOMAIN sent[i].diags : sent[i].diags[j].sev = sev}} :
           i \in DOMAIN sent}

\* C22, as claimed: where a conf file of a context exists neither on disk nor
\* in the document store, no refresh publishes an Error diagnostic (the root
\* Kconfig file being present and parsed without error), and no request on a
\* conf file is answered with an error.
C22_MissingConfYieldsNothing ==
    /\ (\A i \in DOMAIN ctx : ctx[i].kc # None => ctx[i].kc.outcome = "ok")
           => PublishedOf("Error") = {}
    /\ (last.method \in DocMethods /\ rsp # None) => rsp.error = ""

\* The linter diagnostics on the line of an entry of the linted file
DiagsAt(line) == SelectSeq(output.diags, LAMBDA d : d.line = line)

\* The messages of the six checks, in the order of the linter
CheckMsgs ==
    <<{"Undefined symbol"}, {"Invalid type"},
      {"was already disabled", "was assigned, but got", "couldn't be set"},
      {"cannot be set (has no prompt)"}, {"by default"}, {"set more than once"}>>

\* The checks that apply to the i-th entry of the linted file, given the
\* values the symbols have after the load; the third is taken as the linter
\* applies it, to an assignment with a missing direct dependency
Applies(i) ==
    LET e == output.entries[i]
        sym == LintTree[e.name]
        u == output.user[e.name]
    IN  {k \in 1..6 :
            CASE k = 1 -> sym.type = "unknown"
              [] k = 2 -> sym.type # EntryType(e.raw)
              [] k = 3 -> /\ u # str_value(LintTree, output.user, e.name) \/ u # "y"
                          /\ missing_deps(LintTree, output.user, e.name) # <<>>
              [] k = 4 -> ~sym.prompt
              [] k = 5 -> sym.type = "int" /\ u = str_default(LintTree, output.user, e.name)
              [] k = 6 -> \/ \E j \in DOMAIN input.board : input.board[j].name = e.name
                          \/ \E j \in 1..(i - 1) : output.entries[j].name = e.name}

Typed(i) ==
    /\ output.entries[i].name \in LintNames
    /\ LintTree[output.entries[i].name].type = EntryType(output.entries[i].raw)

\* C24, as claimed: an entry that passes the undefined and type checks and
\* whose symbol has a user value other than its value has one diagnostic, a
\* Warning of the assignment check, whether a direct dependency is missing
\* or not; when both values are n it has the 'already disabled' Hint.
C24_AssignmentAlwaysReported ==
    output # None =>
        \A i \in DOMAIN output.entries :
            Typed(i) =>
                LET Checked(u, v, ds) ==
                        /\ u # v => /\ Len(ds) = 1
                                    /\ ds[1].sev = "Warning"
                                    /\ ds[1].msg = IF v = "" THEN "couldn't be set"
                                                   ELSE "was assigned, but got"
                        /\ (u = v /\ u = "n") => /\ Len(ds) = 1
                                                 /\ ds[1].sev = "Hint"
                                                 /\ ds[1].msg = "was already disabled"
                IN  Checked(output.user[output.entries[i].name],
                            str_value(LintTree, output.user, output.entries[i].name),
                            DiagsAt(i - 1))

\* The missing direct dependencies of a symbol that are bool symbols
BoolDeps(name) ==
    SelectSeq(missing_deps(LintTree, output.user, name),
              LAMBDA dep : dep.kind = "sym" /\ LintTree[dep.name].type = "bool")

\* The edit enables the dependency of the entry: it writes y over the value
\* of an entry of the dependency in the file or, the file having none,
\* inserts the assignment at the start of the line of the entry
EnablesDep(edit, dep, entry) ==
    IF \E j \in DOMAIN output.entries : output.entries[j].name = dep.name
    THEN /\ edit.at = "value_range"
         /\ edit.text = <<"y">>
         /\ \E j \in DOMAIN output.entries :
                output.entries[j].name = dep.name /\ output.entries[j].line = edit.line
    ELSE edit = TextEdit("line_start", entry.line, <<"CONFIG_", dep.name, "=y", NL>>)

\* C25: the last action of every diagnostic of the assignment check is
\* 'Remove entry'; it is preceded by one enable action when a missing
\* dependency is a bool symbol and by nothing otherwise; the action has one
\* edit per such dependency, in the reverse of the dependency order, each
\* enabling its dependency.
C25_AssignmentActions ==
    output # None =>
        \A k \in DOMAIN output.diags :
            output.diags[k].msg \in CheckMsgs[3] =>
                LET Fixes(entry, acts, deps) ==
                        /\ acts # <<>>
                        /\ acts[Len(acts)] = remove(entry, "Remove entry")
                        /\ Len(acts) = IF deps = <<>> THEN 1 ELSE 2
                        /\ deps # <<>> =>
                               /\ Len(acts[1].edits) = Len(deps)
                               /\ acts[1].title[1] = IF Len(deps) = 1 THEN "Enable"
                                                     ELSE "Enable entries"
                               /\ Len(deps) = 1 => acts[1].title[2] = deps[1].name
                               /\ \A i \in DOMAIN deps :
                                      EnablesDep(acts[1].edits[i], deps[Len(deps) + 1 - i], entry)
                IN  Fixes(output.entries[output.diags[k].line + 1], output.diags[k].actions,
                          BoolDeps(output.entries[output.diags[k].line + 1].name))

\* C25 witness: a diagnostic whose enable action has two edits, the first
\* rewriting an entry of the file and the second inserting a line, and a
\* diagnostic of the assignment check with 'Remove entry' alone
C25_Witness ==
    /\ output # None
    /\ \E k \in DOMAIN output.diags :
           /\ Len(output.diags[k].actions) = 2
           /\ Len(output.diags[k].actions[1].edits) = 2
           /\ output.diags[k].actions[1].edits[1].at = "value_range"
           /\ output.diags[k].actions[1].edits[2].at = "line_start"
    /\ \E k \in DOMAIN output.diags :
           /\ output.diags[k].msg \in CheckMsgs[3]
           /\ Len(output.diags[k].actions) = 1

\* The text before the cursor on its line, without the leading blanks
RECURSIVE DropBlanks(_)
DropBlanks(s) == IF s = <<>> THEN s ELSE IF s[1] = " " THEN DropBlanks(Tail(s)) ELSE s
Typed26 ==
    IF input.pos.line >= Len(input.lines) THEN <<>>
    ELSE DropBlanks([i \in 1..Min(input.pos.character, Len(input.lines[input.pos.line + 1]))
                        |-> input.lines[input.pos.line + 1][i]])

\* The typed text begins with the full CONFIG_
FullPrefix == Len(Typed26) >= 7 /\ \A i \in 1..7 : Typed26[i] = CONFIG_[i]

\* The name begins with the text typed after CONFIG_
MatchesTail(name) ==
    /\ Len(name) >= Len(Typed26) - 7
    /\ \A i \in 1..(Len(Typed26) - 7) : name[i] = Typed26[7 + i]

\* C26: the completion list is complete exactly when the text before the
\* cursor, without leading blanks, begins with CONFIG_; it then holds every
\* symbol whose name begins with the text typed after CONFIG_, visible or
\* not; otherwise it holds visible symbols only and is incomplete.
C26_CompleteIffFullPrefix ==
    output # None =>
        /\ output.isIncomplete = ~FullPrefix
        /\ IF FullPrefix
           THEN \A k \in DOMAIN CompletionSyms :
                    MatchesTail(CompletionSyms[k].name)
                        => \E i \in DOMAIN output.items : output.items[i] = CompletionSyms[k]
           ELSE \A i \in DOMAIN output.items : output.items[i].visibility

\* C26 witness: after blanks and CONFIG_A the list is complete and holds a
\* symbol that is not visible
C26_Witness ==
    /\ output # None
    /\ Typed26 = CONFIG_ \o <<"A">>
    /\ input.lines[1][1] = " "
    /\ ~output.isIncomplete
    /\ \E i \in DOMAIN output.items : ~output.items[i].visibility

\* The witness of an incomplete list: the partial prefix CONF followed by a
\* letter yields the visible symbols of that letter
C26_PartialWitness ==
    /\ output # None
    /\ Typed26 = <<"C", "O", "N", "F", "B">>
    /\ output.isIncomplete
    /\ output.items = <<CompletionSyms[3]>>

\* C27, as claimed: the parser reads a file that has a document in the store
\* from the document, whose content is that of the latest didOpen or
\* didChange, and never from disk; it reads a file without document from
\* disk; and its open adds no document to the store.
C27_ParserReadsStoreFirst ==
    [][output'.event = "open" =>
          /\ IF output.doc # None
             THEN /\ ~output'.read.raised
                  /\ output'.read.lines = output.doc.lines
                  /\ output.latest # None => output'.read.lines = splitlines(output.latest.text)
             ELSE IF input.file # Missing
                  THEN ~output'.read.raised /\ output'.read.lines = splitlines(input.file.text)
             ELSE output'.read.raised
          /\ (output'.doc = None) = (output.doc = None)
      ]_vars

\* C28, as claimed: the environment a parse of a context sees is exactly the
\* env of that context, whatever was parsed before.
C28_ParseSeesOwnEnvOnly ==
    output.parsed # None => output.environ = input.envs[output.parsed.ctx]

\* The part of C28 that holds: every key of the env of the parsed context has
\* the value of that context.
C28_OwnKeysHaveOwnValues ==
    output.parsed # None =>
        \A k \in DOMAIN input.envs[output.parsed.ctx] :
            /\ k \in DOMAIN output.environ
            /\ output.environ[k] = input.envs[output.parsed.ctx][k]

\* A parse of a context after a parse of the other one, whose env differs
C28_Witness ==
    /\ output.parsed # None
    /\ steps >= 2
    /\ input.envs["c1"] # input.envs["c2"]
    /\ \E k \in DOMAIN output.environ : k \notin DOMAIN input.envs[output.parsed.ctx]

\* C29: for every menu node n of the current parsed tree (main menu, menu,
\* symbol node, choice node, comment), find_node(_node_id(n)) is n, and no
\* other node of the tree has the id of n.
C29_NodeIdRoundTrip ==
    output # None =>
        /\ output.found = [node |-> output.n, raised |-> FALSE]
        /\ \A m \in 0..Len(input.tree) :
               m # output.n => node_id_of(input.tree, input.version, m) # output.id

\* The second node of a symbol that has two nodes, in a tree that also has a
\* node of another kind, was looked up by its id
C29_Witness ==
    /\ output # None
    /\ output.n > 0
    /\ input.tree[output.n].kind = "SYM"
    /\ \E m \in 1..(output.n - 1) : input.tree[m] = input.tree[output.n]
    /\ \E m \in DOMAIN input.tree : input.tree[m].kind \in {"MENU", "CHOICE", "COMMENT"}
    /\ output.found.node = output.n

\* The context of the given key after a refresh of it in the given state
Refreshed(S, key) == CtxOf(refresh_ctx(S, key), key)

\* C30: a refresh parses a context only if it is not valid at that moment and
\* runs load_config only if the context is valid afterwards, so that no
\* load_config runs after a failed parse or on an invalidated context that was
\* not reparsed; an invalidated context is not valid and its next refresh
\* parses.  Stated for the refresh of any context in any reachable state, and
\* for the refresh a didChange actually runs.
C30_RefreshLifecycle ==
    [][/\ \A i \in DOMAIN ctx :
              LET c == ctx[i]
                  key == Str(ctx[i].uri)
                  R == Refreshed(Server, key)
                  I == Refreshed(SetCtx(Server, key, invalidate(c)), key)
              IN  /\ R.parses = c.parses + (IF valid(c) THEN 0 ELSE 1)
                  /\ R.loads = c.loads + (IF valid(R) THEN 1 ELSE 0)
                  /\ ~valid(invalidate(c))
                  /\ I.parses = c.parses + 1
                  /\ I.loads = c.loads + (IF valid(I) THEN 1 ELSE 0)
       /\ (last'.method = "textDocument/didChange" /\ ctx # <<>>) =>
              /\ ctx'[LastIdx].parses = ctx[LastIdx].parses + (IF valid(ctx[LastIdx]) THEN 0 ELSE 1)
              /\ ctx'[LastIdx].loads = ctx[LastIdx].loads + (IF valid(ctx'[LastIdx]) THEN 1 ELSE 0)
      ]_vars

\* A didChange refreshed a context whose parse had failed: it was parsed
\* again, failed again, and load_config never ran on it
C30_Witness ==
    /\ last.method = "textDocument/didChange"
    /\ ctx # <<>>
    /\ ~valid(ctx[LastIdx])
    /\ ctx[LastIdx].parses >= 2
    /\ ctx[LastIdx].loads = 0

\* A didChange refreshed a valid context: it was loaded again and not parsed
C30_LoadedWitness ==
    /\ last.method = "textDocument/didChange"
    /\ ctx # <<>>
    /\ valid(ctx[LastIdx])
    /\ ctx[LastIdx].parses = 1
    /\ ctx[LastIdx].loads >= 2

\* The URIs under which the diagnostic of warning i was published
PublishedUnder(i) ==
    {output[k].uri : k \in {k \in DOMAIN output :
        \E j \in DOMAIN output[k].diags :
            output[k].diags[j] = Diag("Warning", input.warnings[i].msg, i - 1)}}

\* C31, as claimed: a captured warning that names a file is published under
\* the URI of that file and nowhere else, a warning without file name under
\* the command-line URI, and a 'set more than once.' warning nowhere.
C31_WarningsUnderOwnUri ==
    output # None =>
        \A i \in DOMAIN input.warnings :
            PublishedUnder(i) =
                IF input.warnings[i].msg = IgnoredMsg THEN {}
                ELSE IF input.warnings[i].filename = <<>> THEN {UriFile(CommandLine)}
                ELSE {UriFile(input.warnings[i].filename)}

\* The part of C31 that holds: the warnings of the conf files of the context
\* are published under their URI, the warnings without file name and those
\* of any other file but the board defconfig under the command-line URI, and
\* the warnings of the board defconfig and 'set more than once.' nowhere.
C31_WarningsAsPartitioned ==
    output # None =>
        \A i \in DOMAIN input.warnings :
            PublishedUnder(i) =
                IF input.warnings[i].msg = IgnoredMsg THEN {}
                ELSE IF input.warnings[i].filename = PrjConf THEN {UriFile(PrjConf)}
                ELSE IF input.warnings[i].filename = BoardDefconfig THEN {}
                ELSE {UriFile(CommandLine)}

\* C32, as claimed: for every URI u, Uri.parse(str(u)) == u, the files of
\* POSIX and Windows paths included, and the drive colon of a Windows path
\* is written %3A.
C32_UriRoundTrip ==
    output # None =>
        /\ output.parsed.found
        /\ ~output.parsed.raised
        /\ uri_eq(output.parsed.uri, input.uri)
        /\ \A i \in DOMAIN output.str : output.str[i] = ":" => i = Len(input.uri.scheme) + 1

\* The part of C32 that holds: Uri.file of a POSIX or Windows path without
\* space round-trips through str and parse, and the drive colon of the
\* Windows path is written %3A.
C32_PlainUriRoundTrip ==
    (output # None /\ input.file) =>
        /\ output.parsed.found
        /\ ~output.parsed.raised
        /\ uri_eq(output.parsed.uri, input.uri)
        /\ \A i \in DOMAIN output.str : output.str[i] = ":" => i = Len(input.uri.scheme) + 1

\* The line the position is on, and whether the position is on it
OnLine == input.pos.line < Len(input.lines)
               /\ input.pos.character <= Len(input.lines[input.pos.line + 1])
PosLine == input.lines[input.pos.line + 1]

\* The maximal runs of word characters [a, b] (from 1) of the line
IsWordRun(l, a, b) ==
    /\ a <= b
    /\ \A i \in a..b : IsWordChar(l[i])
    /\ (a = 1 \/ ~IsWordChar(l[a - 1]))
    /\ (b = Len(l) \/ ~IsWordChar(l[b + 1]))

\* No word: None or the empty string
NoWord(r) == r.none \/ r.word = <<>>

\* C33, as claimed: word_at gives the whole maximal word for a position
\* inside it or at either of its ends, and no word for a position that
\* touches no word character, that is past the end of the line, or whose
\* line is past the end of the document.
C33_WordAt ==
    output # None =>
        IF OnLine /\ \E a, b \in 1..Len(PosLine) :
                         IsWordRun(PosLine, a, b) /\ input.pos.character \in (a - 1)..b
        THEN \E a, b \in 1..Len(PosLine) :
                 /\ IsWordRun(PosLine, a, b)
                 /\ input.pos.character \in (a - 1)..b
                 /\ output = [none |-> FALSE, word |-> SubSeq(PosLine, a, b)]
        ELSE NoWord(output)

\* The part of C33 that holds: the same for the positions that are not past
\* the end of their line.
C33_WordAtOnLine ==
    (output # None /\ (input.pos.line >= Len(input.lines) \/ OnLine)) =>
        IF OnLine /\ \E a, b \in 1..Len(PosLine) :
                         IsWordRun(PosLine, a, b) /\ input.pos.character \in (a - 1)..b
        THEN \E a, b \in 1..Len(PosLine) :
                 /\ IsWordRun(PosLine, a, b)
                 /\ input.pos.character \in (a - 1)..b
                 /\ output = [none |-> FALSE, word |-> SubSeq(PosLine, a, b)]
        ELSE NoWord(output)

\* The children listed whose item is the symbol
ListedOf(name) == {k \in DOMAIN output.children : output.children[k].item = [class |-> "Symbol", name |-> name]}

\* C34, as claimed: the children of a choice node hold every child that is no
\* symbol of every location, and every symbol contributed at any location
\* exactly once, by its child at the queried node when it has one there.
C34_ChoiceChildrenOncePerSymbol ==
    output # None =>
        /\ \A loc \in DOMAIN input.choice : \A k \in DOMAIN input.choice[loc] :
               ~isinstance(input.choice[loc][k], "Symbol") =>
                   \E j \in DOMAIN output.children : output.children[j].loc = loc /\ output.children[j].pos = k
        /\ \A s \in ChoiceSymbols :
               LET here == {k \in DOMAIN input.choice[input.node] :
                               input.choice[input.node][k].name = s}
                   anywhere == \E loc \in DOMAIN input.choice :
                                   \E k \in DOMAIN input.choice[loc] :
                                       input.choice[loc][k].name = s
               IN  /\ anywhere => ListedOf(s) # {}
                   /\ Cardinality(here) <= 1 => Cardinality(ListedOf(s)) <= 1
                   /\ here # {} => \A j \in ListedOf(s) : output.children[j].loc = input.node

\* C35: a best_ctx that returns a context increases access_count by one and
\* sets the last_access of that context to the new count, which makes it the
\* one most recently accessed context; access_count never decreases, no
\* last_access exceeds it, no two contexts share a last_access that is not 0,
\* and the requests that select with get_ctx or last_ctx change no counter.
C35_AccessCounting ==
    [][/\ access_count' >= access_count
       /\ \A i \in DOMAIN ctx' : ctx'[i].last_access <= access_count'
       /\ \A i, j \in DOMAIN ctx' :
              (i # j /\ ctx'[i].last_access # 0) => ctx'[i].last_access # ctx'[j].last_access
       /\ IF last'.method \in DocMethods /\ BestKey(Server, last'.uri) # NoKey
          THEN LET k == BestKey(Server, last'.uri)
               IN  /\ access_count' = access_count + 1
                   /\ CtxOf(Server', k).last_access = access_count'
                   /\ last_ctx(Server') = k
                   /\ \A i \in DOMAIN ctx' :
                          Str(ctx'[i].uri) # k => ctx'[i].last_access < access_count'
          ELSE /\ access_count' = access_count
               /\ last'.method # "kconfig/addBuild" =>
                      \A i \in DOMAIN ctx : \A j \in DOMAIN ctx' :
                          ctx[i].uri = ctx'[j].uri => ctx'[j].last_access = ctx[i].last_access
      ]_vars

\* A document request selected the context that was not the most recently
\* accessed one of two, both accessed before, and made it the most recent
C35_Witness ==
    /\ last.method \in DocMethods
    /\ Len(ctx) = 2
    /\ access_count >= 2
    /\ \A i \in DOMAIN ctx : ctx[i].last_access # 0
    /\ rsp.result # None
    /\ last_ctx(Server) = rsp.result.ctx

\* C36, as claimed: when kconfig/addBuild creates a new context object for a
\* build URI that had a context, no menu-node id the earlier context issued
\* for its tree resolves in the new one: kconfig/getMenu with such an id has
\* an empty result.
C36_IdsOfEarlierObjectFail ==
    [][(last'.method = "kconfig/addBuild" /\ Str(last'.uri) \in Keys
            /\ CtxOf(Server, Str(last'.uri)).kc # None) =>
          \A n \in Nodes(CtxOf(Server, Str(last'.uri)).kc) :
              get_menu(CtxOf(Server', Str(last'.uri)),
                       node_id(CtxOf(Server, Str(last'.uri)), n), FALSE).result = None
      ]_vars

\* C37, as claimed: a refresh that follows a refresh of the same context with
\* nothing in between publishes the same diagnostics for every URI, the
\* warnings captured while parsing included.
C37_RefreshTwiceSame ==
    [][(output.event = "refresh" /\ output'.event = "refresh")
           => output'.published = output.published]_vars

\* The part of C37 that holds: the warnings captured while loading are
\* published by every refresh of a parsed context, and the second of two
\* refreshes publishes nothing the first did not publish.
C37_LoadWarningsEveryRefresh ==
    [][(output.event = "refresh" /\ output'.event = "refresh") =>
          /\ \A k \in DOMAIN output'.published :
                 /\ output'.published[k].uri = output.published[k].uri
                 /\ \A j \in DOMAIN output'.published[k].diags :
                        \E i \in DOMAIN output.published[k].diags :
                            output.published[k].diags[i] = output'.published[k].diags[j]
          /\ output'.published
                 = published_of(partition_diags(WarnContext, WarnFrom(<<>>, input.loading, 1), 1))
      ]_vars

\* C38, as claimed: a value assigned with kconfig/setVal is the user value of
\* the symbol until it is unset or the context is reparsed; the reload of a
\* didChange refresh does not discard it.
C38_SetValSurvivesReload ==
    \A s \in ValSymbols : output.held[s] # "" => output.user[s] = output.held[s]

\* The part of C38 that holds: kconfig/setVal makes its value the user value.
C38_SetValAssigns ==
    [][output'.event = "set" =>
          \E s \in ValSymbols : output'.held[s] # "" /\ output'.user[s] = output'.held[s]]_vars

\* C39, as claimed: once the store holds a document for the URI, it keeps
\* holding one, the same object unless a didOpen registers another, and the
\* content changes only by didOpen or didChange; didClose and changes of the
\* file on disk neither remove nor refresh it, and every parse and lint reads
\* the stored content.
C39_StoredDocumentKept ==
    [][output.doc # None =>
          /\ output'.doc # None
          /\ output'.event # "didOpen" => output'.obj = output.obj
          /\ output'.event \notin {"didOpen", "didChange"} => output'.doc.lines = output.doc.lines
          /\ output'.event \in {"open", "get"} =>
                 ~output'.read.raised /\ output'.read.lines = output.doc.lines
      ]_vars

\* The part of C39 that holds: the store never drops its document, neither
\* didClose nor a change of the file on disk touches it, and a document that
\* is loaded is changed by didOpen and didChange only.
C39_LoadedDocumentKept ==
    [][output.doc # None =>
          /\ output'.doc # None
          /\ output'.event # "didOpen" => output'.obj = output.obj
          /\ output'.event \in {"didClose", "disk"} => output'.doc = output.doc
          /\ output.doc.loaded /\ output'.event \notin {"didOpen", "didChange"} =>
                 output'.doc = output.doc
          /\ output.doc.loaded /\ output'.event \in {"open", "get"} =>
                 ~output'.read.raised /\ output'.read.lines = output.doc.lines
      ]_vars

\* The contexts of the server that reference the conf file uri
ReferencedBy(uri) ==
    {i \in DOMAIN ctx : \E j \in DOMAIN all_conf_files(ctx[i]) : all_conf_files(ctx[i])[j].uri = uri}

DiagsSentFor(uri) ==
    \E i \in DOMAIN sent : sent[i].method = "textDocument/publishDiagnostics" /\ sent[i].uri = Str(uri)

\* C40, as claimed: while textDocument/didChange on a conf file that some
\* context references is handled, diagnostics are published for the URI of
\* that file, whichever context was accessed last.
C40_ChangePublishesForFile ==
    (last.method = "textDocument/didChange" /\ ReferencedBy(last.uri) # {})
        => DiagsSentFor(last.uri)

\* The part of C40 that holds: the diagnostics of the file are published
\* when the context accessed last references it.
C40_LastCtxPublishes ==
    (last.method = "textDocument/didChange" /\ last_ctx(Server) # NoKey
         /\ Idx(Server, last_ctx(Server)) \in ReferencedBy(last.uri))
        => DiagsSentFor(last.uri)

====
